---- MODULE Spec2Model ----
(***************************************************************************)
(* Futures / ETF / index price converter, premium analyzer, quarterly     *)
(* expiration calculator and volume-profile analytics of the dashboard.   *)
(*                                                                         *)
(* Numbers of the program are IEEE doubles; the properties verified here  *)
(* are stated in exact arithmetic, so a number is modelled as a           *)
(* normalised rational <<n, d>> with d > 0 and gcd(n, d) = 1.  The pair   *)
(* <<0, 0>> stands for the TypeScript value null.                         *)
(***************************************************************************)
EXTENDS Integers, Sequences, FiniteSets, TLC

VARIABLES
    op,           \* name of the last operation applied
    value,        \* numeric input of the converter (parsed input field)
    fromTicker,   \* converter source ticker
    toTicker,     \* converter target ticker
    marketData,   \* price snapshot: ticker field -> price
    params,       \* carry parameters
    result,       \* value returned by the last conversion
    premium,      \* PremiumInfo returned by calculatePremiumInfo
    futures,      \* actual futures price handed to calculatePremiumInfo
    tickerType,   \* instrument class handed to calculatePremiumInfo
    now,          \* the clock: local year, month, day, hour
    tz,           \* offset of local time from UTC, in hours (positive = east)
    thirdFriday,  \* the local Date computed by getNextQuarterlyExpiration
    expiration,   \* { date, days } returned by getNextQuarterlyExpiration
    bars,         \* the OHLCV window handed to the analytics
    profile,      \* VolumeProfile returned by calculateVolumeProfile
    roundoff,     \* rounding error of the double arithmetic of the variance
    vwapData,     \* { vwap, upperBand, lowerBand } returned by calculateVWAP
    cvdData,      \* { cvd, recentDelta, direction } returned by calculateCVD
    ofiData,      \* { ofi, aggressor } returned by calculateOrderFlowImbalance
    blockData,    \* { blockFlow, direction } returned by analyzeBlockTrades
    text,         \* e.target.value of the last edit in the parameters sidebar
    quotes,       \* what fetchYahooQuote returned for each ticker
    alerts,       \* the PriceAlert list held by usePriceAlerts
    prevAlerts,   \* the list handed to the last setAlerts updater
    store,        \* the localStorage entry under the key priceAlerts
    toasts,       \* ids of the alerts the last sweep raised a toast for
    nextId,       \* how many ids crypto.randomUUID has handed out
    dirty,        \* the list changed and the saving effect has not run yet
    removed,      \* the id handed to the last removeAlert
    isRefreshing, \* the isRefreshing flag of useMarketData
    pending,      \* the calls of useMarketData that await the edge function
    response,     \* what the last settled invocation of the edge function gave
    sectorBars,   \* the closes fetchOHLCV gives for each sector
    sectorPending,  \* the sectors whose fetch has not completed
    sectorStrength, \* the sectorStrength object: its entries in insertion order
    rotation,     \* what analyzeSectorRotation returned
    breadth,      \* the vixRegime of analyzeMarketBreadth, by each revision
    predictArgs,  \* the arguments handed to predictOpen
    prediction    \* { direction, confidence, score } returned by predictOpen

convVars == <<value, fromTicker, toTicker, marketData, params, result, premium,
              futures, tickerType>>

dateVars == <<now, tz, thirdFriday, expiration>>

flowVars == <<roundoff, vwapData, cvdData, ofiData, blockData>>

barVars == <<bars, profile, flowVars>>

feedVars == <<text, quotes>>

alertVars == <<alerts, prevAlerts, store, toasts, nextId, dirty, removed>>

refreshVars == <<isRefreshing, pending, response>>

sectorVars == <<sectorBars, sectorPending, sectorStrength, rotation>>

predictVars == <<breadth, predictArgs, prediction>>

restVars == <<sectorVars, predictVars>>

sideVars == <<alertVars, refreshVars, restVars>>

vars == <<op, convVars, dateVars, barVars, feedVars, sideVars>>

----------------------------------------------------------------------------
(* Bounds of the model *)

MaxValue == 2       \* converter inputs are 1..MaxValue
MaxPrice == 2       \* price levels 1..MaxPrice scale each base price
MaxRate == 1        \* risk-free rate in percent, 0..MaxRate
MaxYield == 1       \* dividend yields in percent, 0..MaxYield
MaxDays == 1        \* days to expiration: 73, 146, .. 73 * MaxDays (fifths of a year)
MaxYears == 3       \* the clock runs over the years 2023 .. 2022 + MaxYears
MaxBars == 2        \* bars in a window
MaxBarPrice == 3    \* bar prices are 1..MaxBarPrice
MaxVolume == 2      \* bar volumes are 0..MaxVolume

----------------------------------------------------------------------------
(* Exact rational arithmetic standing for the program's number type *)

Abs(n) == IF n < 0 THEN -n ELSE n

RECURSIVE GCD(_, _)
GCD(a, b) == IF b = 0 THEN a ELSE GCD(b, a % b)

Q(n, d) ==
    LET g == GCD(Abs(n), Abs(d))
        s == IF d < 0 THEN -1 ELSE 1
    IN  <<(s * n) \div g, (s * d) \div g>>

QI(n) == <<n, 1>>

Null == <<0, 0>>

IsNull(a) == a[2] = 0

QMul(a, b) ==
    LET g1 == GCD(Abs(a[1]), b[2])
        g2 == GCD(Abs(b[1]), a[2])
    IN  IF a[1] = 0 \/ b[1] = 0 THEN <<0, 1>>
        ELSE <<(a[1] \div g1) * (b[1] \div g2), (a[2] \div g2) * (b[2] \div g1)>>

QInv(a) == IF a[1] < 0 THEN <<-a[2], -a[1]>> ELSE <<a[2], a[1]>>

QDiv(a, b) == QMul(a, QInv(b))

QAdd(a, b) ==
    LET g == GCD(a[2], b[2])
    IN  Q(a[1] * (b[2] \div g) + b[1] * (a[2] \div g), (a[2] \div g) * b[2])

QNeg(a) == <<-a[1], a[2]>>

QSub(a, b) == QAdd(a, QNeg(b))

\* a < b by continued-fraction expansion (no products, so no overflow)
RECURSIVE QLt(_, _)
QLt(a, b) ==
    LET fa == a[1] \div a[2]
        fb == b[1] \div b[2]
        ra == a[1] % a[2]
        rb == b[1] % b[2]
    IN  IF fa # fb THEN fa < fb
        ELSE IF ra = 0 THEN rb > 0
        ELSE IF rb = 0 THEN FALSE
        ELSE QLt(<<b[2], rb>>, <<a[2], ra>>)

QLe(a, b) == ~QLt(b, a)

QFloor(a) == a[1] \div a[2]

\* Math.round: nearest integer, halves rounded towards +infinity.
MathRound(a) == (a[1] \div a[2]) + (IF 2 * (a[1] % a[2]) >= a[2] THEN 1 ELSE 0)

\* Math.exp.  e^x is irrational for rational x # 0, so it is replaced by its
\* [1/1] Pade approximant (2 + x) / (2 - x), which on |x| < 2 keeps what the
\* program relies on: positive, strictly increasing, exp(0) = 1 and
\* exp(-x) = 1 / exp(x).  The error is x^3 / 12 + O(x^4).
MathExp(x) == QDiv(QAdd(QI(2), x), QSub(QI(2), x))

----------------------------------------------------------------------------
(* lib/futuresConverter *)

Tickers == {"QQQ", "NQ", "NDX", "SPY", "ES", "SPX", "GLD", "GC"}

\* Ticker strings a caller can pass: the known ones and one no rule mentions.
TickerStrings == Tickers \cup {"VIX"}

\* mutant: rate and dividend yield exchanged in the exponent
carryMultiplier_swapped(rate, divYield, daysToExp) ==
    LET t == Q(daysToExp, 365)
        r == QDiv(rate, QI(100))
        d == QDiv(divYield, QI(100))
    IN  MathExp(QMul(QSub(d, r), t))

\* carryMultiplier = Math.exp((r - d) * t), rate and yield in percent
carryMultiplier(rate, divYield, daysToExp) ==
    LET t == Q(daysToExp, 365)
        r == QDiv(rate, QI(100))
        d == QDiv(divYield, QI(100))
    IN  MathExp(QMul(QSub(r, d), t))

\* Formula: Futures = Spot * e^((r - d) * t)
calculateCarryPremium(spotPrice, rate, divYield, daysToExp) ==
    QMul(spotPrice, carryMultiplier(rate, divYield, daysToExp))

\* mutant: the ratio taken upside down
ratioOf_inverted(v, md, from, to) == QMul(v, QDiv(QI(md[from]), QI(md[to])))

\* value * (snapshot[to] / snapshot[from]), the ratio computed first as in the code
ratioOf(v, md, from, to) == QMul(v, QDiv(QI(md[to]), QI(md[from])))

\* mutant: the reverse direction forgets the dividend yield
reverseCarry_noDividend(v, rate, divYield, daysToExp) ==
    QDiv(v, carryMultiplier(rate, QI(0), daysToExp))

\* value / carryMultiplier: the reverse cost of carry
reverseCarry(v, rate, divYield, daysToExp) ==
    QDiv(v, carryMultiplier(rate, divYield, daysToExp))

\* mutant: an unsupported pair yields null
identityFallback_null(v) == Null

\* No rule matched: return value
identityFallback(v) == v

\* The `ratios` record of the earlier revision: conversion key -> <<from, to>> fields
ratioKeys ==
    [x \in {<<"QQQ", "NQ">>, <<"NQ", "QQQ">>, <<"SPY", "ES">>, <<"ES", "SPY">>,
             <<"GLD", "GC">>, <<"GC", "GLD">>} |->
        CASE x = <<"QQQ", "NQ">> -> <<"qqq", "nq">>
          [] x = <<"NQ", "QQQ">> -> <<"nq", "qqq">>
          [] x = <<"SPY", "ES">> -> <<"spy", "es">>
          [] x = <<"ES", "SPY">> -> <<"es", "spy">>
          [] x = <<"GLD", "GC">> -> <<"gld", "gc">>
          [] x = <<"GC", "GLD">> -> <<"gc", "gld">>]

\* convert, the earlier revision: a table of direct ratios tried first (an entry
\* is used when it is truthy, i.e. non-zero), then carry and chained rules
convert_v1(v, from, to, md, p) ==
    LET key == <<from, to>>
        ratio == IF key \in DOMAIN ratioKeys
                 THEN QDiv(QI(md[ratioKeys[key][2]]), QI(md[ratioKeys[key][1]]))
                 ELSE <<0, 1>>
    IN
    IF from = to THEN v
    ELSE IF ratio[1] # 0 THEN QMul(v, ratio)
    ELSE IF from = "NDX" /\ to = "NQ"
        THEN calculateCarryPremium(v, p.riskFreeRate, p.ndxDivYield, p.daysToExp)
    ELSE IF from = "NQ" /\ to = "NDX"
        THEN reverseCarry(v, p.riskFreeRate, p.ndxDivYield, p.daysToExp)
    ELSE IF from = "SPX" /\ to = "ES"
        THEN calculateCarryPremium(v, p.riskFreeRate, p.spxDivYield, p.daysToExp)
    ELSE IF from = "ES" /\ to = "SPX"
        THEN reverseCarry(v, p.riskFreeRate, p.spxDivYield, p.daysToExp)
    ELSE IF from = "QQQ" /\ to = "NDX" THEN ratioOf(v, md, "qqq", "ndx")
    ELSE IF from = "NDX" /\ to = "QQQ" THEN ratioOf(v, md, "ndx", "qqq")
    ELSE IF from = "SPY" /\ to = "SPX" THEN ratioOf(v, md, "spy", "spx")
    ELSE IF from = "SPX" /\ to = "SPY" THEN ratioOf(v, md, "spx", "spy")
    ELSE IF from = "QQQ" /\ to = "NQ"
        THEN calculateCarryPremium(ratioOf(v, md, "qqq", "ndx"),
                                   p.riskFreeRate, p.ndxDivYield, p.daysToExp)
    ELSE IF from = "NQ" /\ to = "QQQ"
        THEN ratioOf(reverseCarry(v, p.riskFreeRate, p.ndxDivYield, p.daysToExp),
                     md, "ndx", "qqq")
    ELSE IF from = "SPY" /\ to = "ES"
        THEN calculateCarryPremium(ratioOf(v, md, "spy", "spx"),
                                   p.riskFreeRate, p.spxDivYield, p.daysToExp)
    ELSE IF from = "ES" /\ to = "SPY"
        THEN ratioOf(reverseCarry(v, p.riskFreeRate, p.spxDivYield, p.daysToExp),
                     md, "spx", "spy")
    ELSE identityFallback(v)

\* convert, the revision using live market ratios
convert(v, from, to, md, p) ==
    IF from = to THEN v
    ELSE IF from = "GLD" /\ to = "GC" THEN ratioOf(v, md, "gld", "gc")
    ELSE IF from = "GC" /\ to = "GLD" THEN ratioOf(v, md, "gc", "gld")
    ELSE IF from = "QQQ" /\ to = "SPY" THEN ratioOf(v, md, "qqq", "spy")
    ELSE IF from = "SPY" /\ to = "QQQ" THEN ratioOf(v, md, "spy", "qqq")
    ELSE IF from = "NDX" /\ to = "SPX" THEN ratioOf(v, md, "ndx", "spx")
    ELSE IF from = "SPX" /\ to = "NDX" THEN ratioOf(v, md, "spx", "ndx")
    ELSE IF from = "NQ" /\ to = "ES" THEN ratioOf(v, md, "nq", "es")
    ELSE IF from = "ES" /\ to = "NQ" THEN ratioOf(v, md, "es", "nq")
    ELSE IF from = "QQQ" /\ to = "NDX" THEN ratioOf(v, md, "qqq", "ndx")
    ELSE IF from = "NDX" /\ to = "QQQ" THEN ratioOf(v, md, "ndx", "qqq")
    ELSE IF from = "SPY" /\ to = "SPX" THEN ratioOf(v, md, "spy", "spx")
    ELSE IF from = "SPX" /\ to = "SPY" THEN ratioOf(v, md, "spx", "spy")
    ELSE IF from = "QQQ" /\ to = "NQ" THEN ratioOf(v, md, "qqq", "nq")
    ELSE IF from = "NQ" /\ to = "QQQ" THEN ratioOf(v, md, "nq", "qqq")
    ELSE IF from = "SPY" /\ to = "ES" THEN ratioOf(v, md, "spy", "es")
    ELSE IF from = "ES" /\ to = "SPY" THEN ratioOf(v, md, "es", "spy")
    ELSE IF from = "NDX" /\ to = "NQ"
        THEN calculateCarryPremium(v, p.riskFreeRate, p.ndxDivYield, p.daysToExp)
    ELSE IF from = "NQ" /\ to = "NDX"
        THEN reverseCarry(v, p.riskFreeRate, p.ndxDivYield, p.daysToExp)
    ELSE IF from = "SPX" /\ to = "ES"
        THEN calculateCarryPremium(v, p.riskFreeRate, p.spxDivYield, p.daysToExp)
    ELSE IF from = "ES" /\ to = "SPX"
        THEN reverseCarry(v, p.riskFreeRate, p.spxDivYield, p.daysToExp)
    ELSE identityFallback(v)

\* convertCrossIndex, the earlier revision: through the SPX equivalent, with
\* the carry of each future removed and re-applied; null for other tickers
convertCrossIndex_v1(v, from, to, md, p) ==
    LET ndxSpxRatio == QDiv(QI(md.ndx), QI(md.spx))
        spxCarry == carryMultiplier(p.riskFreeRate, p.spxDivYield, p.daysToExp)
        ndxCarry == carryMultiplier(p.riskFreeRate, p.ndxDivYield, p.daysToExp)
        spxEquivalent ==
            CASE from = "ES" -> QDiv(v, spxCarry)
              [] from = "NQ" -> QDiv(QDiv(v, ndxCarry), ndxSpxRatio)
              [] from = "SPX" -> v
              [] from = "NDX" -> QDiv(v, ndxSpxRatio)
              [] OTHER -> Null
    IN  IF from = to THEN v
        ELSE IF IsNull(spxEquivalent) THEN Null
        ELSE CASE to = "ES" -> QMul(spxEquivalent, spxCarry)
               [] to = "NQ" -> QMul(QMul(spxEquivalent, ndxSpxRatio), ndxCarry)
               [] to = "SPX" -> spxEquivalent
               [] to = "NDX" -> QMul(spxEquivalent, ndxSpxRatio)
               [] OTHER -> Null

\* mutant: an NDX equivalent is handed back for ES without scaling to SPX
convertCrossIndex_unscaledES(v, from, to, md, p) ==
    LET ndxSpxRatio == QDiv(QI(md.ndx), QI(md.spx))
        toNdxEquivalent(ticker, val) ==
            CASE ticker = "NDX" -> val
              [] ticker = "NQ" -> val
              [] ticker = "SPX" -> QMul(val, ndxSpxRatio)
              [] ticker = "ES" -> QMul(val, ndxSpxRatio)
              [] OTHER -> val
        fromNdxEquivalent(ticker, ndxVal) ==
            CASE ticker = "NDX" -> ndxVal
              [] ticker = "NQ" -> ndxVal
              [] ticker = "SPX" -> QDiv(ndxVal, ndxSpxRatio)
              [] ticker = "ES" -> ndxVal
              [] OTHER -> ndxVal
        ndxEquiv == toNdxEquivalent(from, v)
    IN  IF from = to THEN v ELSE fromNdxEquivalent(to, ndxEquiv)

\* convertCrossIndex (BETA), the revision composing through the NDX equivalent
convertCrossIndex(v, from, to, md, p) ==
    LET ndxSpxRatio == QDiv(QI(md.ndx), QI(md.spx))
        toNdxEquivalent(ticker, val) ==
            CASE ticker = "NDX" -> val
              [] ticker = "NQ" -> val
              [] ticker = "SPX" -> QMul(val, ndxSpxRatio)
              [] ticker = "ES" -> QMul(val, ndxSpxRatio)
              [] OTHER -> val
        fromNdxEquivalent(ticker, ndxVal) ==
            CASE ticker = "NDX" -> ndxVal
              [] ticker = "NQ" -> ndxVal
              [] ticker = "SPX" -> QDiv(ndxVal, ndxSpxRatio)
              [] ticker = "ES" -> QDiv(ndxVal, ndxSpxRatio)
              [] OTHER -> ndxVal
        ndxEquiv == toNdxEquivalent(from, v)
    IN  IF from = to THEN v ELSE fromNdxEquivalent(to, ndxEquiv)

\* Math.round(x * 10^k) / 10^k
roundTo(x, scale) == Q(MathRound(QMul(x, QI(scale))), scale)

TickerTypes == {"NQ", "ES", "GC"}

\* mutant: the premium taken from the actual futures price
calculatePremiumInfo_actualBasis(spot, fut, type, p) ==
    LET divYield == IF type = "NQ" THEN p.ndxDivYield
                    ELSE IF type = "ES" THEN p.spxDivYield ELSE QI(0)
        theoreticalFutures ==
            calculateCarryPremium(spot, p.riskFreeRate, divYield, p.daysToExp)
        prem == QSub(fut, spot)
        premiumPct == QMul(QDiv(prem, spot), QI(100))
        multiplier == IF type = "NQ" THEN 20
                      ELSE IF type = "ES" THEN 50 ELSE 100
        premiumDollars == QMul(prem, QI(multiplier))
    IN  [points |-> roundTo(prem, 100),
         percent |-> roundTo(premiumPct, 10000),
         dollars |-> roundTo(premiumDollars, 100),
         theoretical |-> roundTo(theoreticalFutures, 100),
         actual |-> roundTo(fut, 100)]

calculatePremiumInfo(spot, fut, type, p) ==
    LET divYield == IF type = "NQ" THEN p.ndxDivYield
                    ELSE IF type = "ES" THEN p.spxDivYield ELSE QI(0)
        theoreticalFutures ==
            calculateCarryPremium(spot, p.riskFreeRate, divYield, p.daysToExp)
        prem == QSub(theoreticalFutures, spot)
        premiumPct == QMul(QDiv(prem, spot), QI(100))
        multiplier == IF type = "NQ" THEN 20
                      ELSE IF type = "ES" THEN 50 ELSE 100
        premiumDollars == QMul(prem, QI(multiplier))
    IN  [points |-> roundTo(prem, 100),
         percent |-> roundTo(premiumPct, 10000),
         dollars |-> roundTo(premiumDollars, 100),
         theoretical |-> roundTo(theoreticalFutures, 100),
         actual |-> roundTo(fut, 100)]

----------------------------------------------------------------------------
(* Calendar arithmetic of the JavaScript Date object (proleptic Gregorian) *)

isLeapYear(y) == (y % 4 = 0 /\ y % 100 # 0) \/ y % 400 = 0

daysInMonth(y, m) ==
    IF m = 2 THEN (IF isLeapYear(y) THEN 29 ELSE 28)
    ELSE IF m \in {4, 6, 9, 11} THEN 30 ELSE 31

RECURSIVE daysBeforeMonth(_, _)
daysBeforeMonth(y, m) ==
    IF m = 1 THEN 0 ELSE daysBeforeMonth(y, m - 1) + daysInMonth(y, m - 1)

\* number of the day counted from 0001-01-01 = 1, a Monday
dayNumber(d) ==
    LET y == d.year - 1
    IN  365 * y + (y \div 4) - (y \div 100) + (y \div 400)
        + daysBeforeMonth(d.year, d.month) + d.day

\* Date.prototype.getDay: 0 = Sunday .. 6 = Saturday
getDay(d) == dayNumber(d) % 7

\* Date.prototype.toISOString().split('T')[0] of local midnight of d: the UTC
\* calendar date, which is the day before d east of Greenwich
toISODate(d, offset) ==
    IF offset <= 0 THEN d
    ELSE IF d.day > 1 THEN [d EXCEPT !.day = d.day - 1]
    ELSE IF d.month > 1
        THEN [year |-> d.year, month |-> d.month - 1,
              day |-> daysInMonth(d.year, d.month - 1)]
    ELSE [year |-> d.year - 1, month |-> 12, day |-> 31]

\* Math.ceil(a / b) for b > 0
ceilDiv(a, b) == -((-a) \div b)

Max(a, b) == IF a > b THEN a ELSE b

----------------------------------------------------------------------------
(* getNextQuarterlyExpiration *)

expirationMonths == <<3, 6, 9, 12>>

\* mutant: the current month counts when it is a quarterly month
nextQuarter_current(year, currentMonth) ==
    LET later == {i \in 1..Len(expirationMonths) : expirationMonths[i] >= currentMonth}
    IN  IF later = {}
        THEN [year |-> year + 1, month |-> 3]
        ELSE [year |-> year,
              month |-> expirationMonths[CHOOSE i \in later : \A j \in later : i <= j]]

\* Find next expiration month: the first quarterly month after the current
\* one, or March of next year
nextQuarter(year, currentMonth) ==
    LET later == {i \in 1..Len(expirationMonths) : expirationMonths[i] > currentMonth}
    IN  IF later = {}
        THEN [year |-> year + 1, month |-> 3]
        ELSE [year |-> year,
              month |-> expirationMonths[CHOOSE i \in later : \A j \in later : i <= j]]

\* "Get 3rd Friday of the month": first day + days until Friday + 14
thirdFridayOf(year, month) ==
    LET firstDay == [year |-> year, month |-> month, day |-> 1]
        firstDayOfWeek == getDay(firstDay)
        offset == (5 - firstDayOfWeek + 7) % 7
        daysUntilFriday == IF offset = 0 THEN 7 ELSE offset
    IN  [firstDay EXCEPT !.day = 1 + daysUntilFriday + 14]

\* Math.max(Math.ceil(timeDiff / one day), 1), the difference taken in hours
daysToExpiration(target, clock) ==
    LET timeDiff == 24 * (dayNumber(target) - dayNumber(clock)) - clock.hour
    IN  Max(ceilDiv(timeDiff, 24), 1)

getNextQuarterlyExpiration(clock, offset) ==
    LET next == nextQuarter(clock.year, clock.month)
        target == thirdFridayOf(next.year, next.month)
    IN  [date |-> toISODate(target, offset),
         days |-> daysToExpiration(target, clock)]

Years == {2022 + k : k \in 1..MaxYears}

Clocks ==
    {c \in [year : Years, month : 1..12, day : 1..31, hour : {0, 13}] :
        c.day <= daysInMonth(c.year, c.month)}

\* UTC-5, UTC and UTC+1
TzOffsets == {-5, 0, 1}

NoDay == [year |-> 0, month |-> 0, day |-> 0]

\* localStorage.getItem gives null: no entry under the key
NoEntry == [present |-> FALSE, text |-> <<>>]

\* the alerts hook is not mounted
NoAlerts ==
    /\ alerts = <<>>
    /\ prevAlerts = <<>>
    /\ store = NoEntry
    /\ toasts = {}
    /\ nextId = 0
    /\ dirty = FALSE
    /\ removed = 0

\* { data: null, error }: the invocation failed
FailedResponse == [error |-> TRUE, marketData |-> <<>>, params |-> <<>>]

\* nothing asked of the edge function
NoRefresh ==
    /\ isRefreshing = FALSE
    /\ pending = {}
    /\ response = FailedResponse

\* analyzeSectorRotation returned null
NoRotation ==
    [null |-> TRUE, strongestSector |-> "", weakestSector |-> "", techMomentum |-> <<0, 1>>]

\* analyzeSectorRotation is not running
NoSector ==
    /\ sectorBars = <<>>
    /\ sectorPending = {}
    /\ sectorStrength = <<>>
    /\ rotation = NoRotation

NoSignals == [vwapPosition |-> "", recentDelta |-> 0, blockFlow |-> 0, internalsScore |-> 0]

\* no breadth analysis and no prediction made
NoPredict ==
    /\ breadth = [vixRegime |-> "UNKNOWN", revision |-> ""]
    /\ predictArgs = NoSignals
    /\ prediction = [direction |-> "", confidence |-> "", score |-> 0, signals |-> <<>>]

NoRest ==
    /\ NoSector
    /\ NoPredict

NoSide ==
    /\ NoAlerts
    /\ NoRefresh
    /\ NoRest

\* nothing typed, nothing fetched
NoFeed ==
    /\ text = <<>>
    /\ quotes = <<>>

NoDate ==
    /\ now = [year |-> 0, month |-> 0, day |-> 0, hour |-> 0]
    /\ tz = 0
    /\ thirdFriday = NoDay
    /\ expiration = [date |-> NoDay, days |-> 0]

----------------------------------------------------------------------------
(* nq-prediction: calculateVolumeProfile *)

\* bins: number = 50
DefaultBins == 50

MinOf(S) == CHOOSE x \in S : \A y \in S : x <= y

MaxOf(S) == CHOOSE x \in S : \A y \in S : x >= y

Indices(seq) == 1..Len(seq)

\* Math.min(Math.max(Math.floor((midPrice - minPrice) / binSize), 0), bins - 1)
binIndex(bar, minPrice, binSize, bins) ==
    LET midPrice == Q(bar.high + bar.low, 2)
        idx == QFloor(QDiv(QSub(midPrice, QI(minPrice)), binSize))
    IN  MinOf({MaxOf({idx, 0}), bins - 1})

\* (bar.close - bar.low) / (bar.high - bar.low || 1)
closePosition(bar) ==
    LET range == IF bar.high - bar.low = 0 THEN 1 ELSE bar.high - bar.low
    IN  Q(bar.close - bar.low, range)

\* sum of f[i] over the indices in the non-empty set S, halving S so that the
\* evaluation stays shallow; exact addition is associative
RECURSIVE SumTree(_, _)
SumTree(S, f) ==
    IF MinOf(S) = MaxOf(S) THEN f[MinOf(S)]
    ELSE LET mid == (MinOf(S) + MaxOf(S)) \div 2
         IN  QAdd(SumTree({i \in S : i <= mid}, f), SumTree({i \in S : i > mid}, f))

\* sum of f[i] over the indices in S, in exact arithmetic
SumOver(S, f, zero) ==
    IF S = {} THEN zero ELSE QAdd(SumTree(S, f), zero)

\* ascending sequence of a set of integers: the order of Object.entries on
\* integer keys
RECURSIVE Ascending(_)
Ascending(S) == IF S = {} THEN <<>> ELSE <<MinOf(S)>> \o Ascending(S \ {MinOf(S)})

\* entries.sort((a, b) => b.total - a.total): descending by total, stable, so
\* equal totals keep their ascending key order
RECURSIVE SortByTotalDesc(_, _)
SortByTotalDesc(S, total) ==
    IF S = {} THEN <<>>
    ELSE LET top == MaxOf({total[b] : b \in S})
             first == MinOf({b \in S : total[b] = top})
         IN  <<first>> \o SortByTotalDesc(S \ {first}, total)

\* the loop finding the POC: the first entry whose total exceeds every earlier
\* one; pocBin stays 0 when no total exceeds 0
RECURSIVE pocLoop(_, _, _, _, _)
pocLoop(entries, total, i, pocBin, maxVolume) ==
    IF i > Len(entries) THEN pocBin
    ELSE IF total[entries[i]] > maxVolume
        THEN pocLoop(entries, total, i + 1, entries[i], total[entries[i]])
        ELSE pocLoop(entries, total, i + 1, pocBin, maxVolume)

\* the loop collecting the value area: bins by descending volume until the
\* cumulative volume reaches 70% of the total
RECURSIVE valueAreaLoop(_, _, _, _, _)
valueAreaLoop(sortedBins, total, i, cumVolume, totalVolume) ==
    IF i > Len(sortedBins) THEN {}
    ELSE LET cum == cumVolume + total[sortedBins[i]]
         IN  IF 10 * cum >= 7 * totalVolume
             THEN {sortedBins[i]}
             ELSE {sortedBins[i]} \cup
                  valueAreaLoop(sortedBins, total, i + 1, cum, totalVolume)

\* the loop finding the imbalance levels; `side` is "buy" below the value area
\* and "sell" above it; the running result is a price level
RECURSIVE imbalanceLoop(_, _, _, _, _, _, _, _)
imbalanceLoop(entries, vol, i, side, edgeBin, minPrice, binSize, level) ==
    IF i > Len(entries) THEN level
    ELSE LET binNum == entries[i]
             outside == IF side = "buy" THEN binNum < edgeBin ELSE binNum > edgeBin
             hit == outside /\ QLt(level, vol[binNum])
             price == QAdd(QI(minPrice), QMul(Q(2 * binNum + 1, 2), binSize))
         IN  imbalanceLoop(entries, vol, i + 1, side, edgeBin, minPrice, binSize,
                           IF hit THEN price ELSE level)

ZeroProfile ==
    [poc |-> QI(0), valueAreaHigh |-> QI(0), valueAreaLow |-> QI(0),
     biggestBuyersBelow |-> QI(0), biggestSellersAbove |-> QI(0)]

calculateVolumeProfile(window, bins) ==
    IF Len(window) = 0 THEN ZeroProfile
    ELSE
    LET minPrice == MinOf({window[i].low : i \in Indices(window)})
        maxPrice == MaxOf({window[i].high : i \in Indices(window)})
        priceRange == IF maxPrice - minPrice = 0 THEN 1 ELSE maxPrice - minPrice
        binSize == Q(priceRange, bins)
        binOf == [i \in Indices(window) |-> binIndex(window[i], minPrice, binSize, bins)]
        populated == {binOf[i] : i \in Indices(window)}
        barsIn(b) == {i \in Indices(window) : binOf[i] = b}
        total == [b \in populated |->
                    SumOver(barsIn(b), [i \in Indices(window) |-> QI(window[i].volume)],
                            QI(0))[1]]
        buy == [b \in populated |->
                  SumOver(barsIn(b),
                          [i \in Indices(window) |->
                              QMul(QI(window[i].volume), closePosition(window[i]))],
                          QI(0))]
        sell == [b \in populated |->
                   SumOver(barsIn(b),
                           [i \in Indices(window) |->
                               QMul(QI(window[i].volume),
                                    QSub(QI(1), closePosition(window[i])))],
                           QI(0))]
        entries == Ascending(populated)
        pocBin == pocLoop(entries, total, 1, 0, 0)
        poc == QAdd(QI(minPrice), QMul(Q(2 * pocBin + 1, 2), binSize))
        totalVolume == SumOver(populated, [b \in populated |-> QI(total[b])], QI(0))[1]
        sortedBins == SortByTotalDesc(populated, total)
        valueAreaBins == valueAreaLoop(sortedBins, total, 1, 0, totalVolume)
        valueAreaHigh == QAdd(QI(minPrice), QMul(QI(MaxOf(valueAreaBins) + 1), binSize))
        valueAreaLow == QAdd(QI(minPrice), QMul(QI(MinOf(valueAreaBins)), binSize))
        valBin == QFloor(QDiv(QSub(valueAreaLow, QI(minPrice)), binSize))
        vahBin == QFloor(QDiv(QSub(valueAreaHigh, QI(minPrice)), binSize))
    IN  [poc |-> poc, valueAreaHigh |-> valueAreaHigh, valueAreaLow |-> valueAreaLow,
         biggestBuyersBelow |->
             imbalanceLoop(entries, buy, 1, "buy", valBin, minPrice, binSize, QI(0)),
         biggestSellersAbove |->
             imbalanceLoop(entries, sell, 1, "sell", vahBin, minPrice, binSize, QI(0))]

\* bars as fetchOHLCV builds them: low <= close <= high, volume >= 0
BarSet ==
    {b \in [open : 1..MaxBarPrice, high : 1..MaxBarPrice, low : 1..MaxBarPrice,
             close : 1..MaxBarPrice, volume : 0..MaxVolume] :
        b.low <= b.close /\ b.close <= b.high /\ b.open = b.low}

Windows == UNION {[1..n -> BarSet] : n \in 0..MaxBars}

----------------------------------------------------------------------------
(* nq-prediction: calculateVWAP *)

\* the double NaN: the result of 0 / 0 and of the square root of a negative
NaN == <<1, 0>>

IsNaN(a) == a = NaN

\* floor of the square root of a natural number
RECURSIVE isqrt(_)
isqrt(m) ==
    IF m < 2 THEN m
    ELSE LET s == 2 * isqrt(m \div 4)
         IN  IF (s + 1) * (s + 1) <= m THEN s + 1 ELSE s

\* Math.sqrt, to one decimal place: NaN below 0, otherwise non-negative and
\* non-decreasing, 0 at 0
MathSqrt(x) ==
    IF IsNaN(x) \/ x[1] < 0 THEN NaN
    ELSE Q(isqrt((x[1] * 100) \div x[2]), 10)

\* mutant: the variance is not clamped
clampVariance_none(variance) == variance

\* Math.max(variance, 0)
clampVariance(variance) == IF QLt(variance, QI(0)) THEN QI(0) ELSE variance

\* a sum or difference of doubles one of which may be NaN
JsAdd(a, b) == IF IsNaN(a) \/ IsNaN(b) THEN NaN ELSE QAdd(a, b)

JsSub(a, b) == IF IsNaN(a) \/ IsNaN(b) THEN NaN ELSE QSub(a, b)

\* (bar.high + bar.low + bar.close) / 3
typicalPrice(bar) == Q(bar.high + bar.low + bar.close, 3)

\* the distance of the bands from the close of a window without volume
ZeroVolumeBand == 50

ZeroVWAP == [vwap |-> QI(0), upperBand |-> QI(0), lowerBand |-> QI(0)]

\* mutant: no early return for the empty window, which then takes the
\* zero-volume branch with bars[bars.length - 1]?.close || 0 = 0
calculateVWAP_noEmptyGuard(window, err) ==
    LET idx == Indices(window)
        cumVolume == SumOver(idx, [i \in idx |-> QI(window[i].volume)], QI(0))
        cumTPVolume ==
            SumOver(idx, [i \in idx |->
                QMul(typicalPrice(window[i]), QI(window[i].volume))], QI(0))
        cumTPSquared ==
            SumOver(idx, [i \in idx |->
                QMul(QMul(typicalPrice(window[i]), typicalPrice(window[i])),
                     QI(window[i].volume))], QI(0))
        lastClose == IF Len(window) = 0 THEN QI(0) ELSE QI(window[Len(window)].close)
        vwap == QDiv(cumTPVolume, cumVolume)
        variance == QAdd(QSub(QDiv(cumTPSquared, cumVolume), QMul(vwap, vwap)), err)
        stdDev == MathSqrt(clampVariance(variance))
    IN  IF cumVolume = QI(0)
        THEN [vwap |-> lastClose,
              upperBand |-> QAdd(lastClose, QI(ZeroVolumeBand)),
              lowerBand |-> QSub(lastClose, QI(ZeroVolumeBand))]
        ELSE [vwap |-> vwap,
              upperBand |-> JsAdd(vwap, stdDev),
              lowerBand |-> JsSub(vwap, stdDev)]

\* err is the rounding error the double arithmetic leaves in the variance
calculateVWAP(window, err) ==
    IF Len(window) = 0 THEN ZeroVWAP
    ELSE
    LET idx == Indices(window)
        cumVolume == SumOver(idx, [i \in idx |-> QI(window[i].volume)], QI(0))
        cumTPVolume ==
            SumOver(idx, [i \in idx |->
                QMul(typicalPrice(window[i]), QI(window[i].volume))], QI(0))
        cumTPSquared ==
            SumOver(idx, [i \in idx |->
                QMul(QMul(typicalPrice(window[i]), typicalPrice(window[i])),
                     QI(window[i].volume))], QI(0))
        lastClose == QI(window[Len(window)].close)
        vwap == QDiv(cumTPVolume, cumVolume)
        variance == QAdd(QSub(QDiv(cumTPSquared, cumVolume), QMul(vwap, vwap)), err)
        stdDev == MathSqrt(clampVariance(variance))
    IN  IF cumVolume = QI(0)
        THEN [vwap |-> lastClose,
              upperBand |-> QAdd(lastClose, QI(ZeroVolumeBand)),
              lowerBand |-> QSub(lastClose, QI(ZeroVolumeBand))]
        ELSE [vwap |-> vwap,
              upperBand |-> JsAdd(vwap, stdDev),
              lowerBand |-> JsSub(vwap, stdDev)]

\* the rounding errors considered: none, or a hundredth either way
Roundoff == {Q(-1, 100), QI(0), Q(1, 100)}

----------------------------------------------------------------------------
(* nq-prediction: calculateCVD *)

\* deltas.slice(-5)
RecentDeltas == 5

\* mutant: the whole sequence instead of its last n elements
sliceLast_all(seq, n) == seq

\* seq.slice(-n): the last n elements, all of them when there are fewer
sliceLast(seq, n) ==
    IF Len(seq) <= n THEN seq ELSE SubSeq(seq, Len(seq) - n + 1, Len(seq))

\* reduce((a, b) => a + b, 0) over integers
RECURSIVE SumSeq(_)
SumSeq(seq) == IF Len(seq) = 0 THEN 0 ELSE Head(seq) + SumSeq(Tail(seq))

\* priceChange > 0 ? bars[i].volume : -bars[i].volume
delta(prev, bar) == IF bar.close - prev.close > 0 THEN bar.volume ELSE -bar.volume

\* the deltas pushed by the loop: one for every bar but the first
deltasOf(window) == [i \in 1..(Len(window) - 1) |-> delta(window[i], window[i + 1])]

\* recentDelta > 0 ? 'BUYING' : recentDelta < 0 ? 'SELLING' : 'NEUTRAL'
cvdDirection(recentDelta) ==
    IF recentDelta > 0 THEN "BUYING" ELSE IF recentDelta < 0 THEN "SELLING" ELSE "NEUTRAL"

ZeroCVD == [cvd |-> 0, recentDelta |-> 0, direction |-> "NEUTRAL"]

calculateCVD(window) ==
    IF Len(window) < 2 THEN ZeroCVD
    ELSE
    LET deltas == deltasOf(window)
        cvd == SumSeq(deltas)
        recentDelta == SumSeq(sliceLast(deltas, RecentDeltas))
    IN  [cvd |-> cvd, recentDelta |-> recentDelta, direction |-> cvdDirection(recentDelta)]

----------------------------------------------------------------------------
(* nq-prediction: calculateOrderFlowImbalance *)

\* bars.slice(-10)
OfiBars == 10

\* what one bar adds to totalOFI: nothing when its range is 0, otherwise
\* (buyVolume - sellVolume) / bar.volume, which is 0 / 0 = NaN when the volume
\* is 0
ofiTerm(bar) ==
    LET range == bar.high - bar.low
        pos == Q(bar.close - bar.low, range)
        buyVolume == QMul(QI(bar.volume), pos)
        sellVolume == QMul(QI(bar.volume), QSub(QI(1), pos))
    IN  IF range = 0 THEN QI(0)
        ELSE IF bar.volume = 0 THEN NaN
        ELSE QDiv(QSub(buyVolume, sellVolume), QI(bar.volume))

RECURSIVE ofiLoop(_, _, _)
ofiLoop(recentBars, i, totalOFI) ==
    IF i > Len(recentBars) THEN totalOFI
    ELSE ofiLoop(recentBars, i + 1, JsAdd(totalOFI, ofiTerm(recentBars[i])))

\* avgOFI > 0.1 ? 'BUYERS' : avgOFI < -0.1 ? 'SELLERS' : 'BALANCED'; every
\* comparison with NaN is false
aggressorOf(avgOFI) ==
    IF IsNaN(avgOFI) THEN "BALANCED"
    ELSE IF QLt(Q(1, 10), avgOFI) THEN "BUYERS"
    ELSE IF QLt(avgOFI, Q(-1, 10)) THEN "SELLERS"
    ELSE "BALANCED"

ZeroOFI == [ofi |-> QI(0), aggressor |-> "BALANCED"]

calculateOrderFlowImbalance(window) ==
    IF Len(window) = 0 THEN ZeroOFI
    ELSE
    LET recentBars == sliceLast(window, OfiBars)
        totalOFI == ofiLoop(recentBars, 1, QI(0))
        avgOFI == IF IsNaN(totalOFI) THEN NaN ELSE QDiv(totalOFI, QI(Len(recentBars)))
    IN  [ofi |-> avgOFI, aggressor |-> aggressorOf(avgOFI)]

----------------------------------------------------------------------------
(* nq-prediction: analyzeBlockTrades *)

\* if (bars.length < 20)
BlockMinBars == 20

\* bars.slice(-10)
BlockBars == 10

\* if (zScore > 2)
BlockZScore == 2

\* mutant: a z-score equal to the threshold counts
zScoreAbove_inclusive(volume, avgVolume, variance, z) ==
    LET dev == QSub(QI(volume), avgVolume)
    IN  IF variance = QI(0) THEN QLe(QI(z), dev)
        ELSE QLt(QI(0), dev) /\ QLe(QMul(QI(z * z), variance), QMul(dev, dev))

\* (volume - avgVolume) / (stdVolume || 1) > z with stdVolume the square root
\* of `variance`, decided without rounding: with a zero deviation the divisor
\* is 1, otherwise the volume is above the average and
\* (volume - avg)^2 > z^2 * variance
zScoreAbove(volume, avgVolume, variance, z) ==
    LET dev == QSub(QI(volume), avgVolume)
    IN  IF variance = QI(0) THEN QLt(QI(z), dev)
        ELSE QLt(QI(0), dev) /\ QLt(QMul(QI(z * z), variance), QMul(dev, dev))

RECURSIVE blockLoop(_, _, _, _, _)
blockLoop(recentBars, i, avgVolume, variance, blockFlow) ==
    IF i > Len(recentBars) THEN blockFlow
    ELSE LET bar == recentBars[i]
             step == IF zScoreAbove(bar.volume, avgVolume, variance, BlockZScore)
                     THEN (IF bar.close > bar.open THEN 1 ELSE -1)
                     ELSE 0
         IN  blockLoop(recentBars, i + 1, avgVolume, variance, blockFlow + step)

ZeroBlock == [blockFlow |-> 0, direction |-> "NEUTRAL"]

analyzeBlockTrades(window) ==
    IF Len(window) < BlockMinBars THEN ZeroBlock
    ELSE
    LET idx == Indices(window)
        n == QI(Len(window))
        avgVolume == QDiv(SumOver(idx, [i \in idx |-> QI(window[i].volume)], QI(0)), n)
        variance ==
            QDiv(SumOver(idx, [i \in idx |->
                     LET dev == QSub(QI(window[i].volume), avgVolume)
                     IN  QMul(dev, dev)], QI(0)), n)
        blockFlow == blockLoop(sliceLast(window, BlockBars), 1, avgVolume, variance, 0)
    IN  [blockFlow |-> blockFlow,
         direction |-> IF blockFlow > 0 THEN "INSTITUTIONAL BUYING"
                       ELSE IF blockFlow < 0 THEN "INSTITUTIONAL SELLING"
                       ELSE "NEUTRAL"]

NoFlow ==
    /\ roundoff = QI(0)
    /\ vwapData = ZeroVWAP
    /\ cvdData = ZeroCVD
    /\ ofiData = ZeroOFI
    /\ blockData = ZeroBlock

NoBars ==
    /\ bars = <<>>
    /\ profile = ZeroProfile
    /\ NoFlow

----------------------------------------------------------------------------
(* Inputs of the converter and premium functions *)

Values == {QI(n) : n \in 1..MaxValue}

\* Three independent price levels scale the eight base prices, so that the
\* two prices of every pair a conversion rule relates vary independently.
Snapshot(a, b, c) ==
    [qqq |-> 6 * a, nq |-> 26 * b, ndx |-> 25 * c,
     spy |-> 5 * b, es |-> 11 * c, spx |-> 10 * a,
     gld |-> 3 * c, gc |-> 31 * a]

Snapshots == {Snapshot(a, b, c) : a \in 1..MaxPrice, b \in 1..MaxPrice, c \in 1..MaxPrice}

ParamSet ==
    [riskFreeRate : {QI(n) : n \in 0..MaxRate},
     ndxDivYield : {QI(n) : n \in 0..MaxYield},
     spxDivYield : {QI(n) : n \in 0..MaxYield},
     daysToExp : {73 * k : k \in 1..MaxDays}]

NoPremium == [points |-> Null, percent |-> Null, dollars |-> Null,
              theoretical |-> Null, actual |-> Null]

InitConv ==
    /\ op = "init"
    /\ NoFeed
    /\ NoSide
    /\ value \in Values
    /\ fromTicker \in TickerStrings
    /\ toTicker \in TickerStrings
    /\ marketData \in Snapshots
    /\ params \in ParamSet
    /\ result = Null
    /\ premium = NoPremium
    /\ futures = QI(0)
    /\ tickerType = "NQ"
    /\ NoDate
    /\ NoBars

\* PriceConverter.handleConvert with the later revision of convert
Convert ==
    /\ op = "init"
    /\ result' = convert(value, fromTicker, toTicker, marketData, params)
    /\ op' = "convert"
    /\ UNCHANGED <<sideVars, feedVars, value, fromTicker, toTicker, marketData, params, premium, futures, tickerType, dateVars, barVars>>

\* PriceConverter.handleConvert with the earlier revision of convert
ConvertV1 ==
    /\ op = "init"
    /\ result' = convert_v1(value, fromTicker, toTicker, marketData, params)
    /\ op' = "convert_v1"
    /\ UNCHANGED <<sideVars, feedVars, value, fromTicker, toTicker, marketData, params, premium, futures, tickerType, dateVars, barVars>>

\* the tickers the cross-index converter offers, and one it does not
CROSS_TICKERS == {"ES", "NQ", "SPX", "NDX"}

InitCross ==
    /\ op = "init"
    /\ NoFeed
    /\ NoSide
    /\ value \in Values
    /\ fromTicker \in CROSS_TICKERS \cup {"VIX"}
    /\ toTicker \in CROSS_TICKERS \cup {"VIX"}
    /\ marketData \in Snapshots
    /\ params \in ParamSet
    /\ result = Null
    /\ premium = NoPremium
    /\ futures = QI(0)
    /\ tickerType = "NQ"
    /\ NoDate
    /\ NoBars

\* CrossIndexConverter.handleConvert with the later revision
CrossIndex ==
    /\ op = "init"
    /\ result' = convertCrossIndex(value, fromTicker, toTicker, marketData, params)
    /\ op' = "crossIndex"
    /\ UNCHANGED <<sideVars, feedVars, value, fromTicker, toTicker, marketData, params, premium, futures, tickerType, dateVars, barVars>>

\* CrossIndexConverter.handleConvert with the earlier revision
CrossIndexV1 ==
    /\ op = "init"
    /\ result' = convertCrossIndex_v1(value, fromTicker, toTicker, marketData, params)
    /\ op' = "crossIndex_v1"
    /\ UNCHANGED <<sideVars, feedVars, value, fromTicker, toTicker, marketData, params, premium, futures, tickerType, dateVars, barVars>>

NextConv == Convert \/ ConvertV1

SpecConv == InitConv /\ [][NextConv]_vars

NextCross == CrossIndex \/ CrossIndexV1

SpecCross == InitCross /\ [][NextCross]_vars

----------------------------------------------------------------------------
(* Premium analyzer and carry primitive, called as the Index page calls them *)

spotField(type) == IF type = "NQ" THEN "ndx" ELSE IF type = "ES" THEN "spx" ELSE "gld"

futuresField(type) == IF type = "NQ" THEN "nq" ELSE IF type = "ES" THEN "es" ELSE "gc"

InitPremium ==
    /\ op = "init"
    /\ NoFeed
    /\ NoSide
    /\ marketData \in Snapshots
    /\ params \in ParamSet
    /\ tickerType \in TickerTypes
    /\ value = QI(marketData[spotField(tickerType)])
    /\ futures = QI(marketData[futuresField(tickerType)])
    /\ fromTicker = "NDX"
    /\ toTicker = "NQ"
    /\ result = Null
    /\ premium = NoPremium
    /\ NoDate
    /\ NoBars

\* nqPremium / esPremium = calculatePremiumInfo(spot, futures, type, params)
Premium ==
    /\ op = "init"
    /\ premium' = calculatePremiumInfo(value, futures, tickerType, params)
    /\ op' = "premium"
    /\ UNCHANGED <<sideVars, feedVars, value, fromTicker, toTicker, marketData, params, result, futures, tickerType, dateVars, barVars>>

\* calculateCarryPremium(spot, riskFreeRate, ndxDivYield, daysToExp)
Carry ==
    /\ op = "init"
    /\ result' = calculateCarryPremium(value, params.riskFreeRate, params.ndxDivYield,
                                       params.daysToExp)
    /\ op' = "carry"
    /\ UNCHANGED <<sideVars, feedVars, value, fromTicker, toTicker, marketData, params, premium, futures, tickerType, dateVars, barVars>>

NextPremium == Premium \/ Carry

SpecPremium == InitPremium /\ [][NextPremium]_vars

----------------------------------------------------------------------------
(* Properties of the converter *)

\* ticker -> field of the snapshot (TICKER_MAP of usePriceAlerts)
TICKER_MAP ==
    [t \in Tickers |->
        CASE t = "QQQ" -> "qqq" [] t = "NQ" -> "nq" [] t = "NDX" -> "ndx"
          [] t = "SPY" -> "spy" [] t = "ES" -> "es" [] t = "SPX" -> "spx"
          [] t = "GLD" -> "gld" [] t = "GC" -> "gc"]

Converted == op \in {"convert", "convert_v1"}

\* the revision of convert that produced `result`
convertUsed(v, from, to, md, p) ==
    IF op = "convert_v1" THEN convert_v1(v, from, to, md, p)
    ELSE convert(v, from, to, md, p)

\* C1: converting a positive value from A to B and the result back from B to A,
\* with the same snapshot and params, gives the value again, for every ordered
\* pair of the eight tickers; NQ->NDX and ES->SPX divide by exactly the
\* multiplier NDX->NQ and SPX->ES multiply by.
C1_RoundTrip ==
    (Converted /\ value[1] > 0 /\ fromTicker \in Tickers /\ toTicker \in Tickers) =>
        /\ convertUsed(result, toTicker, fromTicker, marketData, params) = value
        /\ (fromTicker = "NQ" /\ toTicker = "NDX") =>
              QMul(result, convertUsed(QI(1), "NDX", "NQ", marketData, params)) = value
        /\ (fromTicker = "ES" /\ toTicker = "SPX") =>
              QMul(result, convertUsed(QI(1), "SPX", "ES", marketData, params)) = value

\* a carry conversion that changed the value and converts back to it
C1_Witness ==
    /\ op = "convert"
    /\ fromTicker = "NQ" /\ toTicker = "NDX"
    /\ value[1] > 0
    /\ result # value
    /\ convert(result, "NDX", "NQ", marketData, params) = value

\* ordered pairs for which a revision of convert has a rule
UnorderedRules ==
    {{"GLD", "GC"}, {"QQQ", "NQ"}, {"SPY", "ES"}, {"NDX", "NQ"}, {"SPX", "ES"},
     {"QQQ", "NDX"}, {"SPY", "SPX"}}

UnorderedRulesLater == UnorderedRules \cup {{"QQQ", "SPY"}, {"NDX", "SPX"}, {"NQ", "ES"}}

HasRule(from, to) ==
    {from, to} \in (IF op = "convert_v1" THEN UnorderedRules ELSE UnorderedRulesLater)

\* C5: convert returns the input unchanged when from = to (any ticker string)
\* and when no rule matches the ordered pair, and never returns null.
C5_IdentityFallback ==
    Converted =>
        /\ fromTicker = toTicker => result = value
        /\ ~HasRule(fromTicker, toTicker) => result = value
        /\ ~IsNull(result)

\* an unsupported pair of distinct tickers, one of them unknown, was converted
C5_Witness ==
    /\ op = "convert"
    /\ fromTicker = "VIX" /\ toTicker = "NQ"
    /\ value[1] > 0
    /\ result = value

EtfFuturePairs ==
    {<<"QQQ", "NQ">>, <<"NQ", "QQQ">>, <<"SPY", "ES">>, <<"ES", "SPY">>,
     <<"GLD", "GC">>, <<"GC", "GLD">>}

\* C6: for QQQ<->NQ, SPY<->ES and GLD<->GC convert returns
\* value * snapshot[to] / snapshot[from], whatever the params, and so maps
\* snapshot[from] to snapshot[to].
C6_DirectRatio ==
    (Converted /\ <<fromTicker, toTicker>> \in EtfFuturePairs) =>
        LET pf == QI(marketData[TICKER_MAP[fromTicker]])
            pt == QI(marketData[TICKER_MAP[toTicker]])
        IN  /\ result = QDiv(QMul(value, pt), pf)
            /\ \A p2 \in ParamSet :
                  convertUsed(value, fromTicker, toTicker, marketData, p2) = result
            /\ convertUsed(pf, fromTicker, toTicker, marketData, params) = pt

\* QQQ -> NQ converted with a carry multiplier different from 1 in the params
C6_Witness ==
    /\ op = "convert"
    /\ fromTicker = "QQQ" /\ toTicker = "NQ"
    /\ value = QI(2)
    /\ params.riskFreeRate # params.ndxDivYield
    /\ result = Q(2 * marketData.nq, marketData.qqq)

\* the revision of convertCrossIndex that produced `result`
CrossConverted == op \in {"crossIndex", "crossIndex_v1"}

crossIndexUsed(v, from, to, md, p) ==
    IF op = "crossIndex_v1" THEN convertCrossIndex_v1(v, from, to, md, p)
    ELSE convertCrossIndex(v, from, to, md, p)

\* what C7 asks of one call of a revision of convertCrossIndex
IgnoresCarry ==
    LET ratio == Q(marketData.ndx, marketData.spx)
    IN  /\ \A p2 \in ParamSet :
              crossIndexUsed(value, fromTicker, toTicker, marketData, p2) = result
        /\ \A md2 \in Snapshots :
              Q(md2.ndx, md2.spx) = ratio =>
                  crossIndexUsed(value, fromTicker, toTicker, md2, params) = result
        /\ {fromTicker, toTicker} \in {{"NQ", "NDX"}, {"ES", "SPX"}} => result = value
        /\ (fromTicker \in {"SPX", "ES"} /\ toTicker \in {"NDX", "NQ"}) =>
              result = QMul(value, ratio)

\* C7: convertCrossIndex between ES, NQ, SPX, NDX depends only on the value, the
\* tickers and snap.ndx / snap.spx: params do not matter, NQ<->NDX and ES<->SPX
\* return the value, SPX/ES -> NDX/NQ multiplies by snap.ndx / snap.spx.
C7_CrossIndexIgnoresCarry ==
    (CrossConverted /\ fromTicker \in CROSS_TICKERS /\ toTicker \in CROSS_TICKERS) =>
        IgnoresCarry

\* the revision at part_002:874-914 has the property of C7
CrossIndexLaterIgnoresCarry ==
    (op = "crossIndex" /\ fromTicker \in CROSS_TICKERS /\ toTicker \in CROSS_TICKERS) =>
        IgnoresCarry

\* what C8 asks of one call of a revision of convert
LiveIndexRatio ==
    LET pf == QI(marketData[TICKER_MAP[fromTicker]])
        pt == QI(marketData[TICKER_MAP[toTicker]])
    IN  /\ result = QDiv(QMul(value, pt), pf)
        /\ \A p2 \in ParamSet :
              convertUsed(value, fromTicker, toTicker, marketData, p2) = result

\* C8: convert(value, NDX, SPX) = value * snapshot.spx / snapshot.ndx and
\* convert(value, SPX, NDX) = value * snapshot.ndx / snapshot.spx, with no carry
\* multiplier and whatever the params.
C8_IndexRatio ==
    (Converted /\ {fromTicker, toTicker} = {"NDX", "SPX"}) => LiveIndexRatio

\* the revision at part_002:775-870 has the property of C8
ConvertLaterIndexRatio ==
    (op = "convert" /\ {fromTicker, toTicker} = {"NDX", "SPX"}) => LiveIndexRatio

----------------------------------------------------------------------------
(* Properties of the premium analyzer and the carry primitive *)

\* C9: theoretical is the carry price of spot with the dividend yield of the
\* instrument class (ndxDivYield for NQ, spxDivYield for ES, 0 for GC); points,
\* percent and dollars come from theoretical - spot with multiplier 20 / 50 /
\* 100; none of the four depends on the actual futures price, which only sets
\* the field `actual`.
C9_PremiumInfo ==
    op = "premium" =>
        LET dy == CASE tickerType = "NQ" -> params.ndxDivYield
                    [] tickerType = "ES" -> params.spxDivYield
                    [] tickerType = "GC" -> QI(0)
            mult == CASE tickerType = "NQ" -> 20
                      [] tickerType = "ES" -> 50
                      [] tickerType = "GC" -> 100
            theo == calculateCarryPremium(value, params.riskFreeRate, dy, params.daysToExp)
            diff == QSub(theo, value)
        IN  /\ premium.theoretical = roundTo(theo, 100)
            /\ premium.points = roundTo(diff, 100)
            /\ premium.percent = roundTo(QDiv(QMul(diff, QI(100)), value), 10000)
            /\ premium.dollars = roundTo(QMul(QI(mult), diff), 100)
            /\ premium.actual = roundTo(futures, 100)
            /\ \A f \in DOMAIN marketData :
                  LET other == calculatePremiumInfo(value, QI(marketData[f]), tickerType, params)
                  IN  /\ other.points = premium.points
                      /\ other.percent = premium.percent
                      /\ other.dollars = premium.dollars
                      /\ other.theoretical = premium.theoretical

\* a premium was computed for a gold contract whose theoretical price is above
\* spot while another class would use a non-zero dividend yield
C9_Witness ==
    /\ op = "premium"
    /\ tickerType = "GC"
    /\ params.ndxDivYield # QI(0) /\ params.spxDivYield # QI(0)
    /\ QLt(QI(0), premium.dollars)
    /\ premium.actual = futures
    /\ premium.actual # premium.theoretical

Rates == {QI(n) : n \in 0..MaxRate}

Yields == {QI(n) : n \in 0..MaxYield}

\* C10: for fixed positive spot and days, calculateCarryPremium is strictly
\* increasing in rate and strictly decreasing in dividend yield, and equals
\* spot exactly when rate equals dividend yield.
C10_CarryMonotone ==
    (op = "carry" /\ value[1] > 0) =>
        LET r == params.riskFreeRate
            d == params.ndxDivYield
            days == params.daysToExp
        IN  /\ \A r2 \in Rates :
                  /\ QLt(r, r2) => QLt(result, calculateCarryPremium(value, r2, d, days))
                  /\ QLt(r2, r) => QLt(calculateCarryPremium(value, r2, d, days), result)
            /\ \A d2 \in Yields :
                  /\ QLt(d, d2) => QLt(calculateCarryPremium(value, r, d2, days), result)
                  /\ QLt(d2, d) => QLt(result, calculateCarryPremium(value, r, d2, days))
            /\ (result = value) <=> (r = d)

\* a carry price below spot (dividend yield above the rate) was computed
C10_Witness ==
    /\ op = "carry"
    /\ value[1] > 0
    /\ QLt(params.riskFreeRate, params.ndxDivYield)
    /\ QLt(result, value)

----------------------------------------------------------------------------
(* Quarterly expiration calculator *)

InitDate ==
    /\ op = "init"
    /\ NoFeed
    /\ NoSide
    /\ now \in Clocks
    /\ tz \in TzOffsets
    /\ thirdFriday = NoDay
    /\ expiration = [date |-> NoDay, days |-> 0]
    /\ value = QI(0)
    /\ fromTicker = "NDX"
    /\ toTicker = "NQ"
    /\ marketData = Snapshot(1, 1, 1)
    /\ params = [riskFreeRate |-> QI(0), ndxDivYield |-> QI(0), spxDivYield |-> QI(0),
                 daysToExp |-> 73]
    /\ result = Null
    /\ premium = NoPremium
    /\ futures = QI(0)
    /\ tickerType = "NQ"
    /\ NoBars

\* const expiration = getNextQuarterlyExpiration()
Expiration ==
    /\ op = "init"
    /\ LET next == nextQuarter(now.year, now.month)
       IN  thirdFriday' = thirdFridayOf(next.year, next.month)
    /\ expiration' = getNextQuarterlyExpiration(now, tz)
    /\ op' = "expiration"
    /\ UNCHANGED <<sideVars, feedVars, convVars, now, tz, barVars>>

NextDate == Expiration

SpecDate == InitDate /\ [][NextDate]_vars

\* C2: getNextQuarterlyExpiration returns days >= 1 and a date whose weekday is
\* Friday and whose month is March, June, September or December.
C2_ExpirationInvariant ==
    op = "expiration" =>
        /\ expiration.days >= 1
        /\ getDay(expiration.date) = 5
        /\ expiration.date.month \in {3, 6, 9, 12}

\* C3: the date computed is the third Friday of the target month: a Friday whose
\* day of the month lies in 15..21, also when the 1st is itself a Friday.
C3_ThirdFriday ==
    op = "expiration" =>
        /\ getDay(thirdFriday) = 5
        /\ thirdFriday.day \in 15..21

----------------------------------------------------------------------------
(* Volume profile *)

InitProfile ==
    /\ op = "init"
    /\ NoFeed
    /\ NoSide
    /\ bars \in Windows
    /\ profile = ZeroProfile
    /\ NoFlow
    /\ value = QI(0)
    /\ fromTicker = "NDX"
    /\ toTicker = "NQ"
    /\ marketData = Snapshot(1, 1, 1)
    /\ params = [riskFreeRate |-> QI(0), ndxDivYield |-> QI(0), spxDivYield |-> QI(0),
                 daysToExp |-> 73]
    /\ result = Null
    /\ premium = NoPremium
    /\ futures = QI(0)
    /\ tickerType = "NQ"
    /\ NoDate

\* const profile = calculateVolumeProfile(bars)
VolumeProfile ==
    /\ op = "init"
    /\ profile' = calculateVolumeProfile(bars, DefaultBins)
    /\ op' = "volumeProfile"
    /\ UNCHANGED <<sideVars, feedVars, convVars, dateVars, bars, flowVars>>

NextProfile == VolumeProfile

SpecProfile == InitProfile /\ [][NextProfile]_vars

\* volume of the populated bins of the window that lie within [lo, hi]
volumeWithin(window, bins, lo, hi) ==
    LET minPrice == MinOf({window[i].low : i \in Indices(window)})
        maxPrice == MaxOf({window[i].high : i \in Indices(window)})
        priceRange == IF maxPrice - minPrice = 0 THEN 1 ELSE maxPrice - minPrice
        binSize == Q(priceRange, bins)
        inside(i) ==
            LET b == binIndex(window[i], minPrice, binSize, bins)
                lower == QAdd(QI(minPrice), QMul(QI(b), binSize))
                upper == QAdd(QI(minPrice), QMul(QI(b + 1), binSize))
            IN  QLe(lo, lower) /\ QLe(upper, hi)
    IN  SumOver({i \in Indices(window) : inside(i)},
                [i \in Indices(window) |-> QI(window[i].volume)], QI(0))[1]

windowVolume(window) ==
    SumOver(Indices(window), [i \in Indices(window) |-> QI(window[i].volume)], QI(0))[1]

\* C4: for every non-empty window (zero-volume and single-bar windows included)
\* valueAreaLow <= poc <= valueAreaHigh, and the bins within
\* [valueAreaLow, valueAreaHigh] hold at least 70% of the window volume.
C4_VolumeProfileInvariant ==
    (op = "volumeProfile" /\ Len(bars) > 0) =>
        /\ QLe(profile.valueAreaLow, profile.poc)
        /\ QLe(profile.poc, profile.valueAreaHigh)
        /\ 10 * volumeWithin(bars, DefaultBins, profile.valueAreaLow, profile.valueAreaHigh)
             >= 7 * windowVolume(bars)

----------------------------------------------------------------------------
(* Order-flow analytics: VWAP, CVD, order-flow imbalance, block trades *)

MaxFlowBars == 2     \* bars in a window of the order-flow analytics
MaxFlowPrice == 2    \* their prices are 1..MaxFlowPrice
MaxFlowVolume == 1   \* their volumes are 0..MaxFlowVolume

\* bars as fetchOHLCV builds them: low <= open, close <= high, volume >= 0
FlowBarSet ==
    {b \in [open : 1..MaxFlowPrice, high : 1..MaxFlowPrice, low : 1..MaxFlowPrice,
             close : 1..MaxFlowPrice, volume : 0..MaxFlowVolume] :
        b.low <= b.close /\ b.close <= b.high /\ b.open = b.low}

FlowWindows == UNION {[1..n -> FlowBarSet] : n \in 0..MaxFlowBars}

\* primaryBars.slice(-20)
VwapBars == 20

\* results not computed yet
PendingFlow ==
    /\ roundoff = QI(0)
    /\ vwapData = [vwap |-> NaN, upperBand |-> NaN, lowerBand |-> NaN]
    /\ cvdData = [cvd |-> 0, recentDelta |-> 0, direction |-> "PENDING"]
    /\ ofiData = [ofi |-> NaN, aggressor |-> "PENDING"]
    /\ blockData = [blockFlow |-> 0, direction |-> "PENDING"]

IdleConverter ==
    /\ value = QI(0)
    /\ fromTicker = "NDX"
    /\ toTicker = "NQ"
    /\ marketData = Snapshot(1, 1, 1)
    /\ params = [riskFreeRate |-> QI(0), ndxDivYield |-> QI(0), spxDivYield |-> QI(0),
                 daysToExp |-> 73]
    /\ result = Null
    /\ premium = NoPremium
    /\ futures = QI(0)
    /\ tickerType = "NQ"

InitFlow ==
    /\ op = "init"
    /\ NoFeed
    /\ NoSide
    /\ bars \in FlowWindows
    /\ profile = [poc |-> NaN, valueAreaHigh |-> NaN, valueAreaLow |-> NaN,
                  biggestBuyersBelow |-> NaN, biggestSellersAbove |-> NaN]
    /\ PendingFlow
    /\ IdleConverter
    /\ NoDate

\* const vwapData = calculateVWAP(primaryBars.slice(-20))
VWAP ==
    /\ op = "init"
    /\ \E err \in Roundoff :
          /\ roundoff' = err
          /\ vwapData' = calculateVWAP(sliceLast(bars, VwapBars), err)
    /\ op' = "vwap"
    /\ UNCHANGED <<sideVars, feedVars, convVars, dateVars, bars, profile, cvdData, ofiData, blockData>>

\* const cvdData = calculateCVD(primaryBars)
CVD ==
    /\ op = "init"
    /\ cvdData' = calculateCVD(bars)
    /\ op' = "cvd"
    /\ UNCHANGED <<sideVars, feedVars, convVars, dateVars, bars, profile, roundoff, vwapData, ofiData, blockData>>

\* const ofiData = calculateOrderFlowImbalance(primaryBars)
OrderFlowImbalance ==
    /\ op = "init"
    /\ ofiData' = calculateOrderFlowImbalance(bars)
    /\ op' = "ofi"
    /\ UNCHANGED <<sideVars, feedVars, convVars, dateVars, bars, profile, roundoff, vwapData, cvdData, blockData>>

\* const blockData = analyzeBlockTrades(primaryBars)
BlockTrades ==
    /\ op = "init"
    /\ blockData' = analyzeBlockTrades(bars)
    /\ op' = "blockTrades"
    /\ UNCHANGED <<sideVars, feedVars, convVars, dateVars, bars, profile, roundoff, vwapData, cvdData, ofiData>>

NextFlow == VWAP \/ CVD \/ OrderFlowImbalance \/ BlockTrades \/ VolumeProfile

SpecFlow == InitFlow /\ [][NextFlow]_vars

\* C11: for every window with non-zero total volume
\* lowerBand <= vwap <= upperBand and upperBand - vwap = vwap - lowerBand: the
\* half-width of the band is a number and not negative, also when the computed
\* variance is slightly negative.
C11_VwapBounds ==
    (op = "vwap" /\ windowVolume(bars) # 0) =>
        /\ ~IsNaN(vwapData.vwap)
        /\ ~IsNaN(vwapData.upperBand)
        /\ ~IsNaN(vwapData.lowerBand)
        /\ QLe(vwapData.lowerBand, vwapData.vwap)
        /\ QLe(vwapData.vwap, vwapData.upperBand)
        /\ QSub(vwapData.upperBand, vwapData.vwap) = QSub(vwapData.vwap, vwapData.lowerBand)

\* two bars with the same typical price and volume: the variance is 0 and the
\* rounding error makes the computed variance negative
C11_Witness ==
    /\ op = "vwap"
    /\ Len(bars) = 2
    /\ windowVolume(bars) = 2
    /\ typicalPrice(bars[1]) = typicalPrice(bars[2])
    /\ QLt(roundoff, QI(0))
    /\ vwapData.lowerBand = vwapData.vwap
    /\ vwapData.upperBand = vwapData.vwap

----------------------------------------------------------------------------
(* Cumulative volume delta over longer windows *)

MaxClose == 2        \* closes of the CVD windows are 1..MaxClose
MaxCvdVolume == 1    \* their volumes are 1..MaxCvdVolume

\* a bar for which the feed gave only close and volume: fetchOHLCV fills open,
\* high and low with the close
FlatBar(c, v) == [open |-> c, high |-> c, low |-> c, close |-> c, volume |-> v]

CvdBarSet == {FlatBar(c, v) : c \in 1..MaxClose, v \in 1..MaxCvdVolume}

\* windows of up to two bars more than the recent deltas
CvdWindows == UNION {[1..n -> CvdBarSet] : n \in 0..(RecentDeltas + 2)}

\* five bars of volume 1000 closing at 100, 101, 99, 102, 98
ExampleWindow ==
    <<FlatBar(100, 1000), FlatBar(101, 1000), FlatBar(99, 1000), FlatBar(102, 1000),
      FlatBar(98, 1000)>>

InitCvd ==
    /\ op = "init"
    /\ NoFeed
    /\ NoSide
    /\ bars \in CvdWindows \cup {ExampleWindow}
    /\ profile = ZeroProfile
    /\ PendingFlow
    /\ IdleConverter
    /\ NoDate

NextCvd == CVD

SpecCvd == InitCvd /\ [][NextCvd]_vars

\* C12: a window of n >= 2 bars gives n - 1 deltas, cvd is their sum and
\* recentDelta the sum of the last 5 of them, so recentDelta = cvd for windows
\* of at most 6 bars; equal volumes 1000 with closes 100, 101, 99, 102, 98
\* give 0 for both.
C12_Cvd ==
    (op = "cvd" /\ Len(bars) >= 2) =>
        LET deltas == deltasOf(bars)
            n == Len(deltas)
            firstRecent == IF n > RecentDeltas THEN n - RecentDeltas + 1 ELSE 1
        IN  /\ n = Len(bars) - 1
            /\ cvdData.cvd = SumSeq(deltas)
            /\ cvdData.recentDelta = SumSeq(SubSeq(deltas, firstRecent, n))
            /\ Len(bars) <= RecentDeltas + 1 => cvdData.recentDelta = cvdData.cvd
            /\ bars = ExampleWindow => (cvdData.cvd = 0 /\ cvdData.recentDelta = 0)

\* seven bars whose first delta is not among the last five, so that cvd and
\* recentDelta differ
C12_Witness ==
    /\ op = "cvd"
    /\ Len(bars) = RecentDeltas + 2
    /\ cvdData.recentDelta # cvdData.cvd
    /\ cvdData.cvd - cvdData.recentDelta = delta(bars[1], bars[2])

\* the example window has been evaluated
ExampleEvaluated == op = "cvd" /\ bars = ExampleWindow /\ cvdData.cvd = 0

\* the signed volume the close direction gives bar i + 1 of the window
signedVolume(window, i) ==
    IF window[i + 1].close > window[i].close THEN window[i + 1].volume
    ELSE IF window[i + 1].close < window[i].close THEN -window[i + 1].volume
    ELSE 0

\* C20: bar i >= 1 contributes +volume when its close is above the previous
\* close, -volume when below and nothing when unchanged; a window whose closes
\* are all equal yields cvd = 0, recentDelta = 0 and NEUTRAL; the direction is
\* BUYING, SELLING or NEUTRAL by the sign of recentDelta.
C20_CvdSign ==
    (op = "cvd" /\ Len(bars) >= 2) =>
        LET n == Len(bars) - 1
            signed == [i \in 1..n |-> signedVolume(bars, i)]
        IN  /\ cvdData.cvd = SumSeq(signed)
            /\ (\A i \in 1..n : bars[i + 1].close = bars[i].close) =>
                  /\ cvdData.cvd = 0
                  /\ cvdData.recentDelta = 0
                  /\ cvdData.direction = "NEUTRAL"
            /\ cvdData.direction = "BUYING" <=> cvdData.recentDelta > 0
            /\ cvdData.direction = "SELLING" <=> cvdData.recentDelta < 0
            /\ cvdData.direction = "NEUTRAL" <=> cvdData.recentDelta = 0

\* the direction label follows the sign of recentDelta
CvdDirectionBySign ==
    op = "cvd" =>
        /\ cvdData.direction = "BUYING" <=> cvdData.recentDelta > 0
        /\ cvdData.direction = "SELLING" <=> cvdData.recentDelta < 0
        /\ cvdData.direction = "NEUTRAL" <=> cvdData.recentDelta = 0

----------------------------------------------------------------------------
(* Properties of the order-flow imbalance and of the empty window *)

\* the divisors of the divisions calculateOrderFlowImbalance performs on a
\* non-empty window: the range and the volume of every recent bar that has a
\* range, and the number of recent bars
ofiDivisors(window) ==
    LET recentBars == sliceLast(window, OfiBars)
        ranged == {i \in Indices(recentBars) : recentBars[i].high - recentBars[i].low # 0}
    IN  {recentBars[i].high - recentBars[i].low : i \in ranged}
            \cup {recentBars[i].volume : i \in ranged}
            \cup (IF Len(window) = 0 THEN {} ELSE {Len(recentBars)})

\* C13: for every bar sequence with low <= close <= high and volume >= 0
\* (zero-range bars and zero-volume bars with a range included)
\* calculateOrderFlowImbalance divides by no zero and returns a defined ofi
\* in [-1, 1].
C13_OfiDefined ==
    op = "ofi" =>
        /\ 0 \notin ofiDivisors(bars)
        /\ ~IsNaN(ofiData.ofi)
        /\ QLe(QI(-1), ofiData.ofi)
        /\ QLe(ofiData.ofi, QI(1))

\* with volume in every bar that has a range, ofi is a number in [-1, 1]
OfiDefinedWithVolume ==
    (op = "ofi" /\ 0 \notin ofiDivisors(bars)) =>
        /\ ~IsNaN(ofiData.ofi)
        /\ QLe(QI(-1), ofiData.ofi)
        /\ QLe(ofiData.ofi, QI(1))

\* C14: on the empty bar sequence calculateVWAP, calculateCVD,
\* calculateOrderFlowImbalance, calculateVolumeProfile and analyzeBlockTrades
\* each return their neutral default: every number 0, the labels NEUTRAL or
\* BALANCED.
C14_EmptyInput ==
    bars = <<>> =>
        /\ op = "vwap" =>
              vwapData = [vwap |-> QI(0), upperBand |-> QI(0), lowerBand |-> QI(0)]
        /\ op = "cvd" =>
              cvdData = [cvd |-> 0, recentDelta |-> 0, direction |-> "NEUTRAL"]
        /\ op = "ofi" => ofiData = [ofi |-> QI(0), aggressor |-> "BALANCED"]
        /\ op = "volumeProfile" =>
              profile = [poc |-> QI(0), valueAreaHigh |-> QI(0), valueAreaLow |-> QI(0),
                         biggestBuyersBelow |-> QI(0), biggestSellersAbove |-> QI(0)]
        /\ op = "blockTrades" => blockData = [blockFlow |-> 0, direction |-> "NEUTRAL"]

\* calculateVWAP has returned for the empty window
C14_Witness ==
    /\ bars = <<>>
    /\ op = "vwap"
    /\ vwapData.vwap = QI(0)
    /\ vwapData.upperBand = QI(0)
    /\ vwapData.lowerBand = QI(0)

----------------------------------------------------------------------------
(* Parameters sidebar: parsing of the number fields *)

\* the text of an input field is a sequence of one-character strings
Digits == <<"0", "1", "2", "3", "4", "5", "6", "7", "8", "9">>

IsDigit(c) == \E i \in 1..Len(Digits) : Digits[i] = c

digitValue(c) == (CHOOSE i \in 1..Len(Digits) : Digits[i] = c) - 1

\* length of the run of digits of t that starts at position i
RECURSIVE digitRun(_, _)
digitRun(t, i) ==
    IF i <= Len(t) /\ IsDigit(t[i]) THEN 1 + digitRun(t, i + 1) ELSE 0

\* decimal value of the n digits of t from position i on, appended to acc
RECURSIVE digitsValue(_, _, _, _)
digitsValue(t, i, n, acc) ==
    IF n = 0 THEN acc ELSE digitsValue(t, i + 1, n - 1, 10 * acc + digitValue(t[i]))

RECURSIVE pow10(_)
pow10(n) == IF n = 0 THEN 1 ELSE 10 * pow10(n - 1)

\* parseInt(text): an optional sign and the digits that follow it, whatever
\* comes after them; NaN when there is no digit
parseInt(t) ==
    LET signed == Len(t) > 0 /\ t[1] \in {"-", "+"}
        start == IF signed THEN 2 ELSE 1
        n == digitRun(t, start)
        magnitude == digitsValue(t, start, n, 0)
    IN  IF n = 0 THEN NaN
        ELSE QI(IF signed /\ t[1] = "-" THEN -magnitude ELSE magnitude)

\* parseFloat(text) for texts without exponent: an optional sign, digits, and
\* an optional point with more digits; NaN when there is no digit
parseFloat(t) ==
    LET signed == Len(t) > 0 /\ t[1] \in {"-", "+"}
        start == IF signed THEN 2 ELSE 1
        n == digitRun(t, start)
        point == start + n <= Len(t) /\ t[start + n] = "."
        m == IF point THEN digitRun(t, start + n + 1) ELSE 0
        whole == digitsValue(t, start, n, 0)
        fraction == Q(digitsValue(t, start + n + 1, m, 0), pow10(m))
        magnitude == QAdd(QI(whole), fraction)
    IN  IF n + m = 0 THEN NaN
        ELSE IF signed /\ t[1] = "-" THEN QNeg(magnitude) ELSE magnitude

\* mutant: the left operand whatever it is
orElse_left(x, d) == x

\* x || d on numbers: d when x is null, NaN or 0
orElse(x, d) == IF IsNull(x) \/ IsNaN(x) \/ x[1] = 0 THEN d ELSE x

\* texts a number field can hand to its change handler
EditTexts == {<<>>, <<"0">>, <<"-", "5">>, <<"1", ".", "5">>}

----------------------------------------------------------------------------
(* market-data endpoint: the snapshot and the parameters it serves *)

MarketFields == {"qqq", "nq", "ndx", "spy", "es", "spx", "gld", "gc"}

\* the hardcoded price a ticker takes when its quote is missing
FallbackQuotes ==
    [qqq |-> QI(529), nq |-> QI(22000), ndx |-> QI(21800), spy |-> QI(595),
     es |-> QI(5961), spx |-> QI(5950), gld |-> QI(305), gc |-> QI(3050)]

\* fetchYahooQuote: null when the request fails, otherwise the price rounded
\* to cents; raw is the price of the feed, or null
fetchYahooQuote(raw) == IF IsNull(raw) THEN Null ELSE roundTo(raw, 100)

\* the marketData object of the response: qqq: qqq || 529.0, ...
serveMarketData(q) ==
    [f \in MarketFields |-> orElse(fetchYahooQuote(q[f]), FallbackQuotes[f])]

\* fetchRiskFreeRate: the T-Bill rate plus half a point, rounded to a tenth,
\* when it lies in [2, 8]; 4.5 otherwise
fetchRiskFreeRate(raw) ==
    IF ~IsNull(raw) /\ raw[1] # 0 /\ QLe(QI(2), raw) /\ QLe(raw, QI(8))
    THEN roundTo(QAdd(raw, Q(1, 2)), 10)
    ELSE Q(45, 10)

\* fetchDividendYield: the yield as a percentage with two decimals, null when
\* the request fails or the feed has none
fetchDividendYield(raw) ==
    IF IsNull(raw) \/ raw[1] = 0 THEN Null
    ELSE Q(MathRound(QMul(raw, QI(10000))), 100)

\* the params object of the response
serveParams(rateRaw, ndxRaw, spxRaw, clock) ==
    LET exp == getNextQuarterlyExpiration(clock, 0)
    IN  [riskFreeRate |-> fetchRiskFreeRate(rateRaw),
         ndxDivYield |-> orElse(fetchDividendYield(ndxRaw), Q(66, 100)),
         spxDivYield |-> orElse(fetchDividendYield(spxRaw), Q(113, 100)),
         daysToExp |-> exp.days,
         nextExpiration |-> exp.date]

----------------------------------------------------------------------------
(* The dashboard: useMarketData and the parameters sidebar *)

\* getDefaultMarketData()
DefaultMarketData ==
    [qqq |-> QI(629), nq |-> Q(2599325, 100), ndx |-> Q(2574849, 100), spy |-> QI(595),
     es |-> Q(59619, 10), spx |-> QI(5950), gld |-> QI(305), gc |-> QI(3050)]

\* getDefaultParams()
getDefaultParams(clock, offset) ==
    LET exp == getNextQuarterlyExpiration(clock, offset)
    IN  [riskFreeRate |-> Q(45, 10), ndxDivYield |-> Q(66, 100),
         spxDivYield |-> Q(113, 100), daysToExp |-> exp.days,
         nextExpiration |-> exp.date]

MaxMonths == 3      \* the dashboard is open in the months 1..MaxMonths

\* the dashboard is looked at on the first of a month of the first year, at 13:00
DashClocks ==
    {[year |-> MinOf(Years), month |-> m, day |-> 1, hour |-> 13] : m \in 1..MaxMonths}

\* what the feed gives the endpoint when the dashboard asks: nothing at all, or
\* a quote for every ticker
DashQuotes ==
    {[f \in MarketFields |-> Null], [f \in MarketFields |-> Q(100004, 1000)]}

\* the rate and the two yields the feed gives the endpoint
DashFeeds == {<<Null, Null, Null>>, <<QI(4), Q(1, 100), Null>>}

InitDashboard ==
    /\ op = "init"
    /\ NoFeed
    /\ NoSide
    /\ now \in DashClocks
    /\ tz \in TzOffsets
    /\ thirdFriday = NoDay
    /\ expiration = [date |-> NoDay, days |-> 0]
    /\ marketData = DefaultMarketData
    /\ params = getDefaultParams(now, tz)
    /\ value = QI(0)
    /\ fromTicker = "NDX"
    /\ toTicker = "NQ"
    /\ result = Null
    /\ premium = NoPremium
    /\ futures = QI(0)
    /\ tickerType = "NQ"
    /\ NoBars

\* fetchAllData: both objects of the response replace the state; a failed
\* invocation leaves the state as it is
FetchAllData ==
    /\ \/ \E q \in DashQuotes, feed \in DashFeeds :
             /\ marketData' = serveMarketData(q)
             /\ params' = serveParams(feed[1], feed[2], feed[3], now)
       \/ UNCHANGED <<marketData, params>>
    /\ op' = "dashboard"
    /\ UNCHANGED <<sideVars, value, fromTicker, toTicker, result, premium, futures, tickerType,
                   dateVars, barVars, feedVars>>

\* refreshMarket: only the marketData of the response is used
RefreshMarket ==
    /\ \/ \E q \in DashQuotes : marketData' = serveMarketData(q)
       \/ UNCHANGED marketData
    /\ op' = "dashboard"
    /\ UNCHANGED <<sideVars, value, fromTicker, toTicker, params, result, premium, futures,
                   tickerType, dateVars, barVars, feedVars>>

\* refreshParams: only the params of the response are used
RefreshParams ==
    /\ \/ \E feed \in DashFeeds :
             params' = serveParams(feed[1], feed[2], feed[3], now)
       \/ UNCHANGED params
    /\ op' = "dashboard"
    /\ UNCHANGED <<sideVars, value, fromTicker, toTicker, marketData, result, premium, futures,
                   tickerType, dateVars, barVars, feedVars>>

\* the 60-second interval: days and date are replaced when the days differ
ExpirationTick ==
    /\ LET exp == getNextQuarterlyExpiration(now, tz)
       IN  params' = IF params.daysToExp # exp.days
                     THEN [params EXCEPT !.daysToExp = exp.days,
                                         !.nextExpiration = exp.date]
                     ELSE params
    /\ op' = "dashboard"
    /\ UNCHANGED <<sideVars, value, fromTicker, toTicker, marketData, result, premium, futures,
                   tickerType, dateVars, barVars, feedVars>>

\* time passes
AdvanceClock ==
    /\ \E c \in DashClocks :
          /\ dayNumber(c) > dayNumber(now)
          /\ now' = c
    /\ op' = "dashboard"
    /\ UNCHANGED <<sideVars, convVars, tz, thirdFriday, expiration, barVars, feedVars>>

\* onChange of the Risk Free Rate field
EditRiskFreeRate ==
    /\ \E t \in EditTexts :
          /\ text' = t
          /\ params' = [params EXCEPT !.riskFreeRate = orElse(parseFloat(t), QI(0))]
    /\ op' = "dashboard"
    /\ UNCHANGED <<sideVars, value, fromTicker, toTicker, marketData, result, premium, futures,
                   tickerType, dateVars, barVars, quotes>>

\* onChange of the NDX Dividend Yield field
EditNdxDivYield ==
    /\ \E t \in EditTexts :
          /\ text' = t
          /\ params' = [params EXCEPT !.ndxDivYield = orElse(parseFloat(t), QI(0))]
    /\ op' = "dashboard"
    /\ UNCHANGED <<sideVars, value, fromTicker, toTicker, marketData, result, premium, futures,
                   tickerType, dateVars, barVars, quotes>>

\* onChange of the SPX Dividend Yield field
EditSpxDivYield ==
    /\ \E t \in EditTexts :
          /\ text' = t
          /\ params' = [params EXCEPT !.spxDivYield = orElse(parseFloat(t), QI(0))]
    /\ op' = "dashboard"
    /\ UNCHANGED <<sideVars, value, fromTicker, toTicker, marketData, result, premium, futures,
                   tickerType, dateVars, barVars, quotes>>

\* onChange of the Days to Expiration field
EditDaysToExp ==
    /\ \E t \in EditTexts :
          /\ text' = t
          /\ params' = [params EXCEPT !.daysToExp = orElse(parseInt(t), QI(1))[1]]
    /\ op' = "dashboard"
    /\ UNCHANGED <<sideVars, value, fromTicker, toTicker, marketData, result, premium, futures,
                   tickerType, dateVars, barVars, quotes>>

NextDashboard ==
    \/ FetchAllData
    \/ RefreshMarket
    \/ RefreshParams
    \/ ExpirationTick
    \/ AdvanceClock
    \/ EditRiskFreeRate
    \/ EditNdxDivYield
    \/ EditSpxDivYield
    \/ EditDaysToExp

SpecDashboard == InitDashboard /\ [][NextDashboard]_vars

\* C15: in every state of the dashboard, after defaults, server fetches,
\* 60-second ticks and edits of the Days to Expiration field (any numeric
\* text, negative numbers and 0 included), params.daysToExp is an integer >= 1.
C15_DaysToExpPositive ==
    /\ params.daysToExp \in Int
    /\ params.daysToExp >= 1

\* a value of daysToExp below 1 is a negative number typed into the field
DaysToExpBelowOneIsTyped ==
    params.daysToExp < 1 =>
        \E t \in EditTexts : ~IsNaN(parseInt(t)) /\ params.daysToExp = parseInt(t)[1]

----------------------------------------------------------------------------
(* market-data endpoint: one request *)

MaxQuote == 1       \* quotes of the feed are 1.004 .. MaxQuote + 0.004

\* what the feed gives for one ticker: nothing, a price that rounds to 0
\* cents, or a price
QuoteOutcomes == {Null, Q(1, 1000)} \cup {Q(1000 * k + 4, 1000) : k \in 1..MaxQuote}

InitMarket ==
    /\ op = "init"
    /\ NoSide
    /\ text = <<>>
    /\ quotes \in [MarketFields -> QuoteOutcomes]
    /\ marketData = Snapshot(1, 1, 1)
    /\ value = QI(0)
    /\ fromTicker = "NDX"
    /\ toTicker = "NQ"
    /\ params = [riskFreeRate |-> QI(0), ndxDivYield |-> QI(0), spxDivYield |-> QI(0),
                 daysToExp |-> 73]
    /\ result = Null
    /\ premium = NoPremium
    /\ futures = QI(0)
    /\ tickerType = "NQ"
    /\ NoDate
    /\ NoBars

\* the prices part of a request to the endpoint
ServeMarketData ==
    /\ op = "init"
    /\ marketData' = serveMarketData(quotes)
    /\ op' = "marketData"
    /\ UNCHANGED <<sideVars, value, fromTicker, toTicker, params, result, premium, futures,
                   tickerType, dateVars, barVars, feedVars>>

NextMarket == ServeMarketData

SpecMarket == InitMarket /\ [][NextMarket]_vars

\* C16: whatever the outcome of each of the eight quote fetches (a failure, or
\* a positive price), the snapshot served has eight positive prices; a failed
\* ticker takes its own hardcoded default, and its failure changes the price
\* of no other ticker.
C16_SnapshotPopulated ==
    op = "marketData" =>
        /\ \A f \in MarketFields :
              /\ ~IsNull(marketData[f])
              /\ ~IsNaN(marketData[f])
              /\ QLt(QI(0), marketData[f])
              /\ IsNull(quotes[f]) => marketData[f] = FallbackQuotes[f]
        /\ \A f \in MarketFields :
              LET failed == serveMarketData([quotes EXCEPT ![f] = Null])
              IN  /\ failed[f] = FallbackQuotes[f]
                  /\ \A g \in MarketFields \ {f} : failed[g] = marketData[g]

\* the NDX quote failed while the QQQ quote arrived
C16_Witness ==
    /\ op = "marketData"
    /\ IsNull(quotes.ndx)
    /\ quotes.qqq = Q(1004, 1000)
    /\ marketData.ndx = QI(21800)
    /\ marketData.qqq = QI(1)

----------------------------------------------------------------------------
(* Imbalance levels of the volume profile *)

MaxImbPrice == 5      \* prices of the windows below are 1..MaxImbPrice
ImbVolumeUnit == 6    \* their volumes are 1, 2 and 7 times this unit

\* bars two price units high that close in the middle, so that half of the
\* volume of every bar is estimated as bought and half as sold; the heaviest
\* bar outweighs two lighter ones by 70%
ImbalanceBarSet ==
    {b \in [open : 1..MaxImbPrice, high : 1..MaxImbPrice, low : 1..MaxImbPrice,
             close : 1..MaxImbPrice,
             volume : {ImbVolumeUnit, 2 * ImbVolumeUnit, 7 * ImbVolumeUnit}] :
        b.high = b.low + 2 /\ b.close = b.low + 1 /\ b.open = b.low}

\* the weekly and monthly profiles see several bars: here up to three
ImbalanceWindows == UNION {[1..n -> ImbalanceBarSet] : n \in 0..3}

InitImbalance ==
    /\ op = "init"
    /\ NoFeed
    /\ NoSide
    /\ bars \in ImbalanceWindows
    /\ profile = ZeroProfile
    /\ NoFlow
    /\ IdleConverter
    /\ NoDate

NextImbalance == VolumeProfile

SpecImbalance == InitImbalance /\ [][NextImbalance]_vars

\* the bins of a window with their estimated buy and sell volume, and the
\* bins of its value area
binsOf(window, bins) ==
    LET idx == Indices(window)
        minPrice == MinOf({window[i].low : i \in idx})
        maxPrice == MaxOf({window[i].high : i \in idx})
        priceRange == IF maxPrice - minPrice = 0 THEN 1 ELSE maxPrice - minPrice
        binSize == Q(priceRange, bins)
        binOf == [i \in idx |-> binIndex(window[i], minPrice, binSize, bins)]
        populated == {binOf[i] : i \in idx}
        barsIn(b) == {i \in idx : binOf[i] = b}
        total == [b \in populated |->
                    SumOver(barsIn(b), [i \in idx |-> QI(window[i].volume)], QI(0))[1]]
        totalVolume == SumOver(populated, [b \in populated |-> QI(total[b])], QI(0))[1]
    IN  [populated |-> populated,
         buy |-> [b \in populated |->
                    SumOver(barsIn(b),
                            [i \in idx |-> QMul(QI(window[i].volume),
                                                closePosition(window[i]))], QI(0))],
         sell |-> [b \in populated |->
                     SumOver(barsIn(b),
                             [i \in idx |-> QMul(QI(window[i].volume),
                                                 QSub(QI(1), closePosition(window[i])))],
                             QI(0))],
         valueArea |-> valueAreaLoop(SortByTotalDesc(populated, total), total, 1, 0,
                                     totalVolume),
         midpoint |-> [b \in populated |->
                         QAdd(QI(minPrice), QMul(Q(2 * b + 1, 2), binSize))]]

\* the midpoints of the bins of S whose volume is the largest of S
largestOf(S, volume, midpoint) ==
    {midpoint[b] : b \in {c \in S : \A d \in S : QLe(volume[d], volume[c])}}

\* C17: biggestBuyersBelow is the midpoint of the bin with the largest
\* estimated buy volume among the populated bins strictly below the lowest bin
\* of the value area, biggestSellersAbove the midpoint of the bin with the
\* largest estimated sell volume among those strictly above its highest bin;
\* each is 0 when there is no such bin.
C17_ImbalanceLevels ==
    (op = "volumeProfile" /\ Len(bars) > 0) =>
        LET b == binsOf(bars, DefaultBins)
            below == {c \in b.populated : c < MinOf(b.valueArea)}
            above == {c \in b.populated : c > MaxOf(b.valueArea)}
        IN  /\ IF below = {} THEN profile.biggestBuyersBelow = QI(0)
               ELSE profile.biggestBuyersBelow \in largestOf(below, b.buy, b.midpoint)
            /\ IF above = {} THEN profile.biggestSellersAbove = QI(0)
               ELSE profile.biggestSellersAbove \in largestOf(above, b.sell, b.midpoint)

----------------------------------------------------------------------------
(* Properties of the quarter selection and of the next expiration *)

QuarterlyMonths == {3, 6, 9, 12}

\* C18: the target month is the smallest month of March, June, September,
\* December strictly greater than the current month, in the current year;
\* from December the target is March of the next year; in a quarterly month
\* the target is the following quarter, never the current month.
C18_QuarterSelection ==
    op = "expiration" =>
        LET later == {m \in QuarterlyMonths : m > now.month}
        IN  /\ later # {} =>
                  /\ thirdFriday.year = now.year
                  /\ thirdFriday.month = MinOf(later)
            /\ now.month = 12 =>
                  /\ thirdFriday.year = now.year + 1
                  /\ thirdFriday.month = 3
            /\ now.month \in QuarterlyMonths =>
                  <<thirdFriday.year, thirdFriday.month>> # <<now.year, now.month>>
            /\ expiration.date.year = thirdFriday.year
            /\ expiration.date.month = thirdFriday.month

\* called on the first of March, before that month's third Friday: the target
\* is June
C18_Witness ==
    /\ op = "expiration"
    /\ now.month = 3
    /\ now.day = 1
    /\ thirdFriday.year = now.year
    /\ thirdFriday.month = 6

\* the third Friday of a month: the Friday among its days 15 .. 21
calendarThirdFriday(year, month) ==
    [year |-> year, month |-> month,
     day |-> CHOOSE d \in 15..21 : getDay([year |-> year, month |-> month, day |-> d]) = 5]

\* the earliest quarterly expiration on or after the date of the clock
earliestExpiration(clock) ==
    LET candidates ==
            {calendarThirdFriday(y, m) : y \in {clock.year, clock.year + 1},
                                         m \in QuarterlyMonths}
        ahead == {d \in candidates : dayNumber(d) >= dayNumber(clock)}
    IN  CHOOSE d \in ahead : \A e \in ahead : dayNumber(d) <= dayNumber(e)

\* C19: for every current date the date returned is the earliest quarterly
\* expiration (third Friday of March, June, September or December) on or after
\* the current date, and days is the number of days from now to that date,
\* rounded up.
C19_NextExpiration ==
    op = "expiration" =>
        LET expected == earliestExpiration(now)
        IN  /\ expiration.date = expected
            /\ expiration.days =
                   ceilDiv(24 * (dayNumber(expected) - dayNumber(now)) - now.hour, 24)

\* days is the number of days from now to the local date computed, rounded up
DaysToComputedDate ==
    op = "expiration" =>
        expiration.days =
            ceilDiv(24 * (dayNumber(thirdFriday) - dayNumber(now)) - now.hour, 24)

----------------------------------------------------------------------------
(* hooks/usePriceAlerts *)

\* A Date is its time value, a whole number of milliseconds.  toISOString
\* writes the seconds and the three digits of the milliseconds; new Date(text)
\* reads both back.
toISOString_seconds(t) == [seconds |-> t \div 1000, millis |-> 0]

toISOString(t) == [seconds |-> t \div 1000, millis |-> t % 1000]

newDate(iso) == iso.seconds * 1000 + iso.millis

\* JSON.stringify of a number: null for NaN, the shortest decimal that reads
\* back as the same double otherwise
jsonNumber(x) == IF IsNaN(x) THEN Null ELSE x

\* JSON.stringify(alerts): every field is written; the Date through toJSON
stringify(list) ==
    [i \in 1..Len(list) |->
        [list[i] EXCEPT !.price = jsonNumber(@), !.createdAt = toISOString(@)]]

\* the initialiser of the state: the stored list with its dates revived
initialAlerts(saved) ==
    IF saved.present
    THEN [i \in 1..Len(saved.text) |->
             [saved.text[i] EXCEPT !.createdAt = newDate(@)]]
    ELSE <<>>

addAlert(list, id, ticker, condition, price, createdAt) ==
    Append(list, [id |-> id, ticker |-> ticker, condition |-> condition,
                  price |-> price, triggered |-> FALSE, createdAt |-> createdAt])

removeAlert(list, id) == SelectSeq(list, LAMBDA a : a.id # id)

\* mutant: the untriggered alerts are the ones dropped
clearTriggered_kept(list) == SelectSeq(list, LAMBDA a : a.triggered)

clearTriggered(list) == SelectSeq(list, LAMBDA a : ~a.triggered)

\* mutant: the comparison excludes the threshold
shouldTrigger_strict(alert, currentPrice) ==
    \/ alert.condition = "above" /\ QLt(alert.price, currentPrice)
    \/ alert.condition = "below" /\ QLt(currentPrice, alert.price)

shouldTrigger(alert, currentPrice) ==
    \/ alert.condition = "above" /\ QLe(alert.price, currentPrice)
    \/ alert.condition = "below" /\ QLe(currentPrice, alert.price)

\* the body of the map of checkAlerts: does this alert fire in this sweep
fires(alert, md) ==
    IF alert.triggered THEN FALSE
    ELSE IF alert.ticker \notin DOMAIN TICKER_MAP THEN FALSE
    ELSE IF IsNull(md[TICKER_MAP[alert.ticker]]) THEN FALSE
    ELSE shouldTrigger(alert, md[TICKER_MAP[alert.ticker]])

\* the updater of checkAlerts; prev itself when nothing fired
checkAlerts(list, md) ==
    LET updated == [i \in 1..Len(list) |->
                       IF fires(list[i], md)
                       THEN [list[i] EXCEPT !.triggered = TRUE]
                       ELSE list[i]]
        hasChanges == \E i \in 1..Len(list) : fires(list[i], md)
    IN  IF hasChanges THEN updated ELSE list

----------------------------------------------------------------------------
(* The alerts tab: alerts are added, removed, cleared and swept; the effect
   of the hook saves the list, and a page load starts the hook again.  React
   runs the effects of a render before it renders the next update, so an
   updater of setAlerts finds the effect of the previous change done. *)

MaxAlertIds == 2      \* ids handed out in one run
MaxAlertTime == 1     \* creation times are 999 .. 999 + MaxAlertTime ms
MaxSweepPrice == 2    \* swept prices are 1..MaxSweepPrice

\* a ticker of each family's ends, and one the map does not know
AlertTickers == {"QQQ", "GC", "BTC"}

AlertConditions == {"above", "below"}

\* what the price field of the form can hold
AlertTexts == {<<>>, <<"0">>, <<"1">>, <<"1", ".", "5">>}

AlertTimes == 999..(999 + MaxAlertTime)

\* the snapshots handed to checkAlerts
AlertSnapshots ==
    {[f \in MarketFields |->
         IF f = "qqq" THEN QI(a) ELSE IF f = "gc" THEN QI(b) ELSE QI(1)] :
     a \in 1..MaxSweepPrice, b \in 1..MaxSweepPrice}

InitAlerts ==
    /\ op = "init"
    /\ NoFeed
    /\ store = NoEntry
    /\ alerts = initialAlerts(store)
    /\ prevAlerts = <<>>
    /\ toasts = {}
    /\ nextId = 0
    /\ dirty = TRUE
    /\ removed = 0
    /\ NoRefresh
    /\ NoRest
    /\ marketData \in AlertSnapshots
    /\ value = QI(0)
    /\ fromTicker = "NDX"
    /\ toTicker = "NQ"
    /\ params = [riskFreeRate |-> QI(0), ndxDivYield |-> QI(0), spxDivYield |-> QI(0),
                 daysToExp |-> 73]
    /\ result = Null
    /\ premium = NoPremium
    /\ futures = QI(0)
    /\ tickerType = "NQ"
    /\ NoDate
    /\ NoBars

alertFrame ==
    UNCHANGED <<value, fromTicker, toTicker, params, result, premium, futures,
                tickerType, dateVars, barVars, feedVars, refreshVars, restVars>>

\* handleAddAlert of the tab, then addAlert of the hook
AddAlert ==
    /\ ~dirty
    /\ nextId < MaxAlertIds
    /\ \E ticker \in AlertTickers, condition \in AlertConditions,
          txt \in AlertTexts, createdAt \in AlertTimes :
          LET priceValue == parseFloat(txt)
          IN  /\ ~IsNaN(priceValue)
              /\ QLt(QI(0), priceValue)
              /\ alerts' = addAlert(alerts, nextId + 1, ticker, condition,
                                    priceValue, createdAt)
    /\ prevAlerts' = alerts
    /\ nextId' = nextId + 1
    /\ toasts' = {}
    /\ dirty' = TRUE
    /\ removed' = 0
    /\ op' = "addAlert"
    /\ UNCHANGED <<marketData, store>>
    /\ alertFrame

RemoveAlert ==
    /\ ~dirty
    /\ \E id \in 1..MaxAlertIds :
          /\ alerts' = removeAlert(alerts, id)
          /\ removed' = id
    /\ prevAlerts' = alerts
    /\ toasts' = {}
    /\ dirty' = TRUE
    /\ op' = "removeAlert"
    /\ UNCHANGED <<marketData, nextId, store>>
    /\ alertFrame

ClearTriggered ==
    /\ ~dirty
    /\ alerts' = clearTriggered(alerts)
    /\ prevAlerts' = alerts
    /\ toasts' = {}
    /\ dirty' = TRUE
    /\ removed' = 0
    /\ op' = "clearTriggered"
    /\ UNCHANGED <<marketData, nextId, store>>
    /\ alertFrame

\* a sweep over the snapshot of the moment; one toast for each alert that fires
CheckAlerts ==
    /\ ~dirty
    /\ \E md \in AlertSnapshots :
          /\ marketData' = md
          /\ alerts' = checkAlerts(alerts, md)
          /\ toasts' = {alerts[i].id : i \in {j \in 1..Len(alerts) : fires(alerts[j], md)}}
    /\ prevAlerts' = alerts
    /\ dirty' = (dirty \/ alerts' # alerts)
    /\ removed' = 0
    /\ op' = "checkAlerts"
    /\ UNCHANGED <<nextId, store>>
    /\ alertFrame

\* the effect on [alerts]
SaveAlerts ==
    /\ dirty
    /\ store' = [present |-> TRUE, text |-> stringify(alerts)]
    /\ dirty' = FALSE
    /\ op' = "save"
    /\ UNCHANGED <<alerts, prevAlerts, toasts, nextId, removed, marketData>>
    /\ alertFrame

\* the page is loaded again, some time after the last render: the hook starts
\* from the stored entry, and the effect runs after the first render
LoadAlerts ==
    /\ ~dirty
    /\ alerts' = initialAlerts(store)
    /\ prevAlerts' = <<>>
    /\ toasts' = {}
    /\ dirty' = TRUE
    /\ removed' = 0
    /\ op' = "usePriceAlerts"
    /\ UNCHANGED <<store, nextId, marketData>>
    /\ alertFrame

NextAlerts ==
    \/ AddAlert
    \/ RemoveAlert
    \/ ClearTriggered
    \/ CheckAlerts
    \/ SaveAlerts
    \/ LoadAlerts

SpecAlerts == InitAlerts /\ [][NextAlerts]_vars

\* the effect of a render is always run
SpecAlertsLive == SpecAlerts /\ WF_vars(SaveAlerts)

AlertOps == {"addAlert", "removeAlert", "clearTriggered", "checkAlerts"}

idsOf(list) == {list[i].id : i \in 1..Len(list)}

alertWithId(list, id) == list[CHOOSE i \in 1..Len(list) : list[i].id = id]

\* the ids of a list, in the order of the list
idOrder(list) == [i \in 1..Len(list) |-> list[i].id]

\* C21: alert lifecycle.  After each of addAlert, removeAlert, clearTriggered
\* and checkAlerts: an alert that was not in the list before was added by
\* addAlert, at the end, with triggered = false; an alert that stays is
\* unchanged, or went from untriggered to triggered in a checkAlerts that
\* raised its one toast; no toast is raised for an alert that was already
\* triggered; checkAlerts keeps the ids and their order; an alert that left
\* was removed by removeAlert with its id or was triggered and cleared by
\* clearTriggered, which leaves no triggered alert; the others keep their order.
C21_AlertLifecycle ==
    op \in AlertOps =>
        /\ \A id \in idsOf(alerts) \ idsOf(prevAlerts) :
              /\ op = "addAlert"
              /\ alerts = Append(prevAlerts, alertWithId(alerts, id))
              /\ alertWithId(alerts, id).triggered = FALSE
        /\ \A id \in idsOf(alerts) \cap idsOf(prevAlerts) :
              LET before == alertWithId(prevAlerts, id)
                  after == alertWithId(alerts, id)
              IN  \/ after = before /\ id \notin toasts
                  \/ /\ op = "checkAlerts"
                     /\ before.triggered = FALSE
                     /\ after = [before EXCEPT !.triggered = TRUE]
                     /\ id \in toasts
        /\ toasts \subseteq idsOf(alerts)
        /\ op = "checkAlerts" => idOrder(alerts) = idOrder(prevAlerts)
        /\ \A id \in idsOf(prevAlerts) \ idsOf(alerts) :
              \/ op = "removeAlert" /\ id = removed
              \/ op = "clearTriggered" /\ alertWithId(prevAlerts, id).triggered
        /\ op = "removeAlert" => removed \notin idsOf(alerts)
        /\ op = "clearTriggered" => \A i \in 1..Len(alerts) : ~alerts[i].triggered
        /\ idOrder(alerts) = SelectSeq(idOrder(prevAlerts), LAMBDA id : id \in idsOf(alerts))
                                 \o SelectSeq(idOrder(alerts), LAMBDA id : id \notin idsOf(prevAlerts))

\* a list with a triggered and an untriggered alert has just been cleared
C21_Witness ==
    /\ op = "clearTriggered"
    /\ Len(prevAlerts) = 2
    /\ Len(alerts) = 1
    /\ \E i \in 1..2 : prevAlerts[i].triggered

\* C22: trigger condition.  In one sweep an untriggered alert becomes
\* triggered exactly when its ticker is one of the eight and the price of the
\* ticker is at or above the threshold (condition above) or at or below it
\* (condition below); an alert with another ticker is not triggered; when no
\* alert triggers the list is the one before.
C22_TriggerCondition ==
    op = "checkAlerts" =>
        /\ Len(alerts) = Len(prevAlerts)
        /\ \A i \in 1..Len(prevAlerts) :
              LET a == prevAlerts[i]
                  known == a.ticker \in Tickers
                  current == marketData[TICKER_MAP[a.ticker]]
              IN  /\ (~a.triggered /\ alerts[i].triggered) <=>
                         /\ ~a.triggered
                         /\ known
                         /\ \/ a.condition = "above" /\ ~QLt(current, a.price)
                            \/ a.condition = "below" /\ ~QLt(a.price, current)
                  /\ ~known => alerts[i] = a
        /\ (\A i \in 1..Len(prevAlerts) : alerts[i].triggered = prevAlerts[i].triggered)
               => alerts = prevAlerts

\* a sweep has triggered an alert whose threshold is the price itself, and
\* has left one with an unknown ticker alone
C22_Witness ==
    /\ op = "checkAlerts"
    /\ Len(alerts) = 2
    /\ \E i, j \in 1..2 :
          /\ alerts[i].triggered /\ ~prevAlerts[i].triggered
          /\ alerts[i].ticker = "GC"
          /\ marketData.gc = alerts[i].price
          /\ alerts[j].ticker = "BTC" /\ ~alerts[j].triggered

\* the stored entry holds the list of the hook
Saved == store.present /\ initialAlerts(store) = alerts

\* C23: alert persistence.  With no stored entry the hook starts from the
\* empty list; whenever the effect of the last change has run, the hook
\* started from the stored entry would hold the same list, field by field and
\* in the same order; and after every change the effect runs.
C23_AlertPersistence ==
    /\ [](op = "init" => alerts = <<>>)
    /\ [](~dirty => Saved)
    /\ [](dirty => <>(~dirty /\ Saved))

\* the hook has started again from a stored list that holds a triggered alert
\* and one created off the second
C23_Witness ==
    /\ op = "usePriceAlerts"
    /\ Len(alerts) = 2
    /\ alerts[1].triggered
    /\ alerts[2].createdAt % 1000 # 0
    /\ alerts = initialAlerts(store)

----------------------------------------------------------------------------
(* useMarketData: the initial fetch and the two refreshes, each a request to
   the edge function and, some time later, the code after its await *)

\* what an invocation gives: an error, or the two objects of the endpoint
Responses(clock) ==
    {FailedResponse} \cup
    {[error |-> FALSE, marketData |-> serveMarketData(q),
      params |-> serveParams(feed[1], feed[2], feed[3], clock)] :
     q \in DashQuotes, feed \in DashFeeds}

\* the state <<marketData, params>> after the code that follows the await
fetchAllData(md, p, res) ==
    IF res.error THEN <<md, p>> ELSE <<res.marketData, res.params>>

\* mutant: the params of the response are taken as well
refreshMarket_all(md, p, res) ==
    IF res.error THEN <<md, p>> ELSE <<res.marketData, res.params>>

refreshMarket(md, p, res) ==
    IF res.error THEN <<md, p>> ELSE <<res.marketData, p>>

refreshParams(md, p, res) ==
    IF res.error THEN <<md, p>> ELSE <<md, res.params>>

\* the hook is mounted: default state, and the effect has called fetchAllData
InitRefresh ==
    /\ op = "init"
    /\ NoFeed
    /\ NoAlerts
    /\ NoRest
    /\ isRefreshing = FALSE
    /\ pending = {"fetchAllData"}
    /\ response = FailedResponse
    /\ now \in DashClocks
    /\ tz \in TzOffsets
    /\ thirdFriday = NoDay
    /\ expiration = [date |-> NoDay, days |-> 0]
    /\ marketData = DefaultMarketData
    /\ params = getDefaultParams(now, tz)
    /\ value = QI(0)
    /\ fromTicker = "NDX"
    /\ toTicker = "NQ"
    /\ result = Null
    /\ premium = NoPremium
    /\ futures = QI(0)
    /\ tickerType = "NQ"
    /\ NoBars

refreshFrame ==
    UNCHANGED <<value, fromTicker, toTicker, result, premium, futures, tickerType,
                dateVars, barVars, feedVars, alertVars, restVars>>

\* refreshMarket up to its await
StartRefreshMarket ==
    /\ "refreshMarket" \notin pending
    /\ isRefreshing' = TRUE
    /\ pending' = pending \cup {"refreshMarket"}
    /\ op' = "startRefreshMarket"
    /\ UNCHANGED <<marketData, params, response>>
    /\ refreshFrame

\* refreshParams up to its await
StartRefreshParams ==
    /\ "refreshParams" \notin pending
    /\ isRefreshing' = TRUE
    /\ pending' = pending \cup {"refreshParams"}
    /\ op' = "startRefreshParams"
    /\ UNCHANGED <<marketData, params, response>>
    /\ refreshFrame

\* fetchAllData from its await on
SettleFetchAllData ==
    /\ "fetchAllData" \in pending
    /\ \E res \in Responses(now) :
          /\ response' = res
          /\ marketData' = fetchAllData(marketData, params, res)[1]
          /\ params' = fetchAllData(marketData, params, res)[2]
    /\ pending' = pending \ {"fetchAllData"}
    /\ op' = "fetchAllData"
    /\ UNCHANGED isRefreshing
    /\ refreshFrame

\* refreshMarket from its await on, finally block included
SettleRefreshMarket ==
    /\ "refreshMarket" \in pending
    /\ \E res \in Responses(now) :
          /\ response' = res
          /\ marketData' = refreshMarket(marketData, params, res)[1]
          /\ params' = refreshMarket(marketData, params, res)[2]
    /\ isRefreshing' = FALSE
    /\ pending' = pending \ {"refreshMarket"}
    /\ op' = "refreshMarket"
    /\ refreshFrame

\* refreshParams from its await on, finally block included
SettleRefreshParams ==
    /\ "refreshParams" \in pending
    /\ \E res \in Responses(now) :
          /\ response' = res
          /\ marketData' = refreshParams(marketData, params, res)[1]
          /\ params' = refreshParams(marketData, params, res)[2]
    /\ isRefreshing' = FALSE
    /\ pending' = pending \ {"refreshParams"}
    /\ op' = "refreshParams"
    /\ refreshFrame

NextRefresh ==
    \/ StartRefreshMarket
    \/ StartRefreshParams
    \/ SettleFetchAllData
    \/ SettleRefreshMarket
    \/ SettleRefreshParams
    \/ EditDaysToExp
    \/ AdvanceClock

SpecRefresh == InitRefresh /\ [][NextRefresh]_vars

\* C24: refresh frame and failure.  A refreshMarket that succeeds puts the
\* marketData of the response in place and leaves params as it was; a
\* refreshParams that succeeds puts the params of the response in place and
\* leaves marketData as it was; a failed refreshMarket, refreshParams or
\* initial fetch leaves both as they were; and isRefreshing is false when a
\* refresh has settled.
C24_RefreshFrame ==
    [][/\ (op' = "refreshMarket" /\ ~response'.error) =>
              marketData' = response'.marketData /\ params' = params
       /\ (op' = "refreshParams" /\ ~response'.error) =>
              params' = response'.params /\ marketData' = marketData
       /\ (op' \in {"refreshMarket", "refreshParams", "fetchAllData"} /\ response'.error) =>
              marketData' = marketData /\ params' = params
       /\ op' \in {"refreshMarket", "refreshParams"} => isRefreshing' = FALSE]_vars

\* a refreshMarket has succeeded over edited params, while a refreshParams is
\* still awaited
C24_Witness ==
    /\ op = "refreshMarket"
    /\ ~response.error
    /\ marketData = response.marketData
    /\ params # response.params
    /\ params.daysToExp = -5
    /\ "refreshParams" \in pending

----------------------------------------------------------------------------
(* nq-prediction: analyzeSectorRotation *)

\* the keys of sectors, in the order of the object literal
SectorNames == <<"Tech", "Finance", "Energy", "Healthcare", "Consumer">>

SectorMinBars == 2

\* (last close / first close - 1) * 100
momentum(closes) ==
    QMul(QSub(Q(closes[Len(closes)], closes[1]), QI(1)), QI(100))

\* entries.reduce((a, b) => a[1] > b[1] ? a : b), from entry i on
RECURSIVE reduceStrongest(_, _, _)
reduceStrongest(entries, i, a) ==
    IF i > Len(entries) THEN a
    ELSE reduceStrongest(entries, i + 1, IF QLt(entries[i][2], a[2]) THEN a ELSE entries[i])

\* entries.reduce((a, b) => a[1] < b[1] ? a : b), from entry i on
RECURSIVE reduceWeakest(_, _, _)
reduceWeakest(entries, i, a) ==
    IF i > Len(entries) THEN a
    ELSE reduceWeakest(entries, i + 1, IF QLt(a[2], entries[i][2]) THEN a ELSE entries[i])

\* sectorStrength['Tech'] || 0
techMomentumOf(entries) ==
    IF \E i \in 1..Len(entries) : entries[i][1] = "Tech"
    THEN orElse(entries[CHOOSE i \in 1..Len(entries) : entries[i][1] = "Tech"][2], QI(0))
    ELSE QI(0)

\* the part of analyzeSectorRotation after Promise.all
rotationOf(entries) ==
    IF Len(entries) = 0 THEN NoRotation
    ELSE [null |-> FALSE,
          strongestSector |-> reduceStrongest(entries, 2, entries[1])[1],
          weakestSector |-> reduceWeakest(entries, 2, entries[1])[1],
          techMomentum |-> techMomentumOf(entries)]

MaxSectorClose == 2   \* closes of the sector bars are 1..MaxSectorClose

\* what fetchOHLCV gives for a sector: no bars, or two bars
SectorFeeds == {<<>>} \cup {<<1, c>> : c \in 1..MaxSectorClose}

\* the map has issued the five fetches
InitSector ==
    /\ op = "init"
    /\ NoFeed
    /\ NoAlerts
    /\ NoRefresh
    /\ NoPredict
    /\ sectorBars \in [{SectorNames[i] : i \in 1..Len(SectorNames)} -> SectorFeeds]
    /\ sectorPending = {SectorNames[i] : i \in 1..Len(SectorNames)}
    /\ sectorStrength = <<>>
    /\ rotation = NoRotation
    /\ IdleConverter
    /\ NoDate
    /\ NoBars

\* one fetch completes and its callback runs on
SectorFetched ==
    /\ \E name \in sectorPending :
          /\ sectorPending' = sectorPending \ {name}
          /\ sectorStrength' =
                 IF Len(sectorBars[name]) >= SectorMinBars
                 THEN Append(sectorStrength, <<name, momentum(sectorBars[name])>>)
                 ELSE sectorStrength
    /\ op' = "sectorFetched"
    /\ UNCHANGED <<sectorBars, rotation>>
    /\ UNCHANGED <<convVars, dateVars, barVars, feedVars, alertVars, refreshVars, predictVars>>

\* Promise.all has resolved
SectorRotation ==
    /\ sectorPending = {}
    /\ op # "sectorRotation"
    /\ rotation' = rotationOf(sectorStrength)
    /\ op' = "sectorRotation"
    /\ UNCHANGED <<sectorBars, sectorPending, sectorStrength>>
    /\ UNCHANGED <<convVars, dateVars, barVars, feedVars, alertVars, refreshVars, predictVars>>

NextSector == SectorFetched \/ SectorRotation

SpecSector == InitSector /\ [][NextSector]_vars

\* the entries of the sectors that gave a momentum, in the order of the literal
RECURSIVE declaredEntries(_)
declaredEntries(i) ==
    IF i > Len(SectorNames) THEN <<>>
    ELSE (IF Len(sectorBars[SectorNames[i]]) >= SectorMinBars
          THEN <<<<SectorNames[i], momentum(sectorBars[SectorNames[i]])>>>>
          ELSE <<>>) \o declaredEntries(i + 1)

\* C25: fan-out determinism.  The result is computed when every fetch has
\* completed; it is null only when no sector gave a momentum; and its
\* strongest and weakest sectors are those of the same bars with the fetches
\* completing in the order of the literal, whatever order they completed in.
C25_FanOutDeterminism ==
    op = "sectorRotation" =>
        /\ sectorPending = {}
        /\ rotation.null <=> Len(declaredEntries(1)) = 0
        /\ rotation.strongestSector = rotationOf(declaredEntries(1)).strongestSector
        /\ rotation.weakestSector = rotationOf(declaredEntries(1)).weakestSector

\* the result is computed after the last fetch, and is null only without entries
RotationAfterAllFetches ==
    op = "sectorRotation" =>
        /\ sectorPending = {}
        /\ rotation.null <=> Len(declaredEntries(1)) = 0

\* without ties the completion order does not show in the result
RotationWithoutTies ==
    (/\ op = "sectorRotation"
     /\ \A i, j \in 1..Len(sectorStrength) :
           i # j => sectorStrength[i][2] # sectorStrength[j][2])
        => /\ rotation.strongestSector = rotationOf(declaredEntries(1)).strongestSector
           /\ rotation.weakestSector = rotationOf(declaredEntries(1)).weakestSector

----------------------------------------------------------------------------
(* Composition of conversions *)

\* the index between an ETF and its future
indexBetween(etf) == IF etf = "QQQ" THEN "NDX" ELSE "SPX"

\* ETF -> index -> future, each step by the revision that was used
viaIndex(v, etf, future, md, p) ==
    convertUsed(convertUsed(v, etf, indexBetween(etf), md, p),
                indexBetween(etf), future, md, p)

\* C26: path independence within a family.  Converting QQQ to NQ, or SPY to
\* ES, gives what converting to the index of the family and from the index to
\* the future gives.
C26_PathIndependence ==
    (Converted /\ <<fromTicker, toTicker>> \in {<<"QQQ", "NQ">>, <<"SPY", "ES">>})
        => result = viaIndex(value, fromTicker, toTicker, marketData, params)


\* C27: cross-index composition.  Between ES, NQ, SPX and NDX a conversion
\* is never null; converting its result on to any third ticker gives what
\* converting the value to that ticker directly gives; and converting the
\* result back gives the value.
C27_CrossIndexComposition ==
    (CrossConverted /\ fromTicker \in CROSS_TICKERS /\ toTicker \in CROSS_TICKERS) =>
        /\ ~IsNull(result)
        /\ \A c \in CROSS_TICKERS :
              /\ ~IsNull(crossIndexUsed(result, toTicker, c, marketData, params))
              /\ crossIndexUsed(result, toTicker, c, marketData, params) =
                     crossIndexUsed(value, fromTicker, c, marketData, params)
        /\ crossIndexUsed(result, toTicker, fromTicker, marketData, params) = value

\* a future has been converted to the other index, with another value as the
\* result, and the result converts back to the value
C27_Witness ==
    /\ CrossConverted
    /\ fromTicker = "ES"
    /\ toTicker = "NDX"
    /\ result # value
    /\ crossIndexUsed(result, "NDX", "NQ", marketData, params) # value
    /\ crossIndexUsed(result, "NDX", "ES", marketData, params) = value


----------------------------------------------------------------------------
(* nq-prediction: the VIX regime of analyzeMarketBreadth *)

VixMinBars == 20
VixLow == 15
VixElevated == 20
VixHigh == 25

\* index.ts: LOW_FEAR, HIGH_FEAR or NORMAL by the latest close
vixRegime_v1(vixBars) ==
    IF Len(vixBars) >= VixMinBars
    THEN LET vixCurrent == vixBars[Len(vixBars)].close
         IN  IF vixCurrent < VixLow THEN "LOW_FEAR"
             ELSE IF vixCurrent > VixHigh THEN "HIGH_FEAR"
             ELSE "NORMAL"
    ELSE "UNKNOWN"

\* the enhanced analysis: ELEVATED between the two upper thresholds
vixRegime(vixBars) ==
    IF Len(vixBars) >= VixMinBars
    THEN LET vixCurrent == vixBars[Len(vixBars)].close
         IN  IF vixCurrent < VixLow THEN "LOW_FEAR"
             ELSE IF vixCurrent > VixHigh THEN "HIGH_FEAR"
             ELSE IF vixCurrent > VixElevated THEN "ELEVATED"
             ELSE "NORMAL"
    ELSE "UNKNOWN"

MaxVix == 26          \* VIX closes are 13..MaxVix
MaxVixBars == 21      \* VIX series have 19..MaxVixBars bars

\* series of 19 and more bars at one level, ending on any close
VixSeries ==
    {[i \in 1..n |-> IF i = n THEN FlatBar(c, 1) ELSE FlatBar(base, 1)] :
     n \in 19..MaxVixBars, c \in 13..MaxVix, base \in {VixLow, VixHigh}}

InitBreadth ==
    /\ op = "init"
    /\ NoFeed
    /\ NoAlerts
    /\ NoRefresh
    /\ NoSector
    /\ NoPredict
    /\ IdleConverter
    /\ NoDate
    /\ bars \in VixSeries
    /\ profile = ZeroProfile
    /\ NoFlow

\* analyzeMarketBreadth of index.ts on the series
MarketBreadthV1 ==
    /\ op = "init"
    /\ breadth' = [vixRegime |-> vixRegime_v1(bars), revision |-> "index.ts"]
    /\ op' = "marketBreadth"
    /\ UNCHANGED <<predictArgs, prediction>>
    /\ UNCHANGED <<convVars, dateVars, barVars, feedVars, alertVars, refreshVars, sectorVars>>

\* analyzeMarketBreadth of the enhanced function on the series
MarketBreadth ==
    /\ op = "init"
    /\ breadth' = [vixRegime |-> vixRegime(bars), revision |-> "enhanced"]
    /\ op' = "marketBreadth"
    /\ UNCHANGED <<predictArgs, prediction>>
    /\ UNCHANGED <<convVars, dateVars, barVars, feedVars, alertVars, refreshVars, sectorVars>>

NextBreadth == MarketBreadthV1 \/ MarketBreadth

SpecBreadth == InitBreadth /\ [][NextBreadth]_vars

\* the label the thresholds 15 / 20 / 25 give a close
regimeOfClose(v) ==
    CASE v < 15 -> "LOW_FEAR"
      [] 15 <= v /\ v <= 20 -> "NORMAL"
      [] 20 < v /\ v <= 25 -> "ELEVATED"
      [] v > 25 -> "HIGH_FEAR"

RegimeByThresholds ==
    Len(bars) >= 20 => breadth.vixRegime = regimeOfClose(bars[Len(bars)].close)

\* C28: VIX regime thresholds.  Given at least 20 VIX bars, the regime is
\* LOW_FEAR for a latest close below 15, NORMAL from 15 to 20, ELEVATED above
\* 20 up to 25 and HIGH_FEAR above 25.
C28_VixRegime ==
    op = "marketBreadth" => RegimeByThresholds

\* the enhanced function labels by the four thresholds
EnhancedVixRegime ==
    (op = "marketBreadth" /\ breadth.revision = "enhanced") => RegimeByThresholds

\* index.ts departs from the four labels only between 20 and 25
VixRegimeV1ButElevated ==
    (/\ op = "marketBreadth"
     /\ breadth.revision = "index.ts"
     /\ ~(20 < bars[Len(bars)].close /\ bars[Len(bars)].close <= 25))
        => RegimeByThresholds


----------------------------------------------------------------------------
(* Block trades in windows of twenty bars and more *)

MaxBlockBars == 21      \* windows have 20..MaxBlockBars bars
MaxBlockVolume == 6     \* the volume of a large bar; the others trade 1

\* a bar of the window: an ordinary rising bar, a rising bar of twice the
\* volume, or a large bar that rises, falls or closes where it opened
blockBar(kind) ==
    CASE kind = "none" -> [open |-> 1, high |-> 2, low |-> 1, close |-> 2, volume |-> 1]
      [] kind = "small" -> [open |-> 1, high |-> 2, low |-> 1, close |-> 2, volume |-> 2]
      [] kind = "up" -> [open |-> 1, high |-> 2, low |-> 1, close |-> 2,
                         volume |-> MaxBlockVolume]
      [] kind = "down" -> [open |-> 2, high |-> 2, low |-> 1, close |-> 1,
                           volume |-> MaxBlockVolume]
      [] kind = "flat" -> [open |-> 1, high |-> 1, low |-> 1, close |-> 1,
                           volume |-> MaxBlockVolume]

BlockKinds == {"none", "small", "up", "down", "flat"}

\* ordinary bars, but for the first bar, the two bars on either side of the
\* start of the last ten, and the last two bars
BlockWindows ==
    {[i \in 1..n |->
         IF i = 1 THEN blockBar(k[1])
         ELSE IF i = n - 10 THEN blockBar(k[2])
         ELSE IF i = n - 9 THEN blockBar(k[3])
         ELSE IF i = n - 1 THEN blockBar(k[4])
         ELSE IF i = n THEN blockBar(k[5])
         ELSE blockBar("none")] :
     n \in 20..MaxBlockBars, k \in [1..5 -> BlockKinds]}

InitBlock ==
    /\ op = "init"
    /\ NoFeed
    /\ NoSide
    /\ bars \in BlockWindows
    /\ profile = ZeroProfile
    /\ PendingFlow
    /\ IdleConverter
    /\ NoDate

NextBlock == BlockTrades

SpecBlock == InitBlock /\ [][NextBlock]_vars

\* bar i of the window is among its last ten
inLastTen(window, i) == i > Len(window) - 10 /\ i >= 1 /\ i <= Len(window)

sumVolume(window) == SumSeq([i \in 1..Len(window) |-> window[i].volume])

sumSquares(window) == SumSeq([i \in 1..Len(window) |-> window[i].volume * window[i].volume])

\* the z-score of bar i exceeds 2: with n bars, volume v, sum S and sum of
\* squares T, (v - S/n) > 2 * sqrt(T/n - (S/n)^2), cleared of fractions
zAboveTwo(window, i) ==
    LET n == Len(window)
        d == n * window[i].volume - sumVolume(window)
    IN  d > 0 /\ d * d > 4 * (n * sumSquares(window) - sumVolume(window) * sumVolume(window))

blocksUp(window) ==
    Cardinality({i \in 1..Len(window) :
        inLastTen(window, i) /\ zAboveTwo(window, i) /\ window[i].close > window[i].open})

blocksDown(window) ==
    Cardinality({i \in 1..Len(window) :
        inLastTen(window, i) /\ zAboveTwo(window, i) /\ window[i].close <= window[i].open})

\* C29: block-trade counter.  For a window of at least 20 bars blockFlow is
\* the number of bars among the last 10 with a volume z-score above 2 that
\* close above their open, minus the number of those that do not; it lies in
\* -10..10, it is 0 when all volumes are equal, and the label follows its sign.
C29_BlockFlow ==
    (op = "blockTrades" /\ Len(bars) >= 20) =>
        /\ blockData.blockFlow = blocksUp(bars) - blocksDown(bars)
        /\ blockData.blockFlow \in -10..10
        /\ (\A i \in 1..Len(bars) : bars[i].volume = bars[1].volume) => blockData.blockFlow = 0
        /\ blockData.direction =
               IF blockData.blockFlow > 0 THEN "INSTITUTIONAL BUYING"
               ELSE IF blockData.blockFlow < 0 THEN "INSTITUTIONAL SELLING"
               ELSE "NEUTRAL"

\* a window with a rising block and two blocks that do not rise among its
\* last ten bars, and a large bar before them
C29_Witness ==
    /\ op = "blockTrades"
    /\ Len(bars) = 21
    /\ blocksUp(bars) = 1
    /\ blocksDown(bars) = 2
    /\ bars[Len(bars) - 10].volume = MaxBlockVolume
    /\ blockData = [blockFlow |-> -1, direction |-> "INSTITUTIONAL SELLING"]

\* four equal large bars among twenty are exactly two deviations above the
\* mean, and are no blocks
BlockAtThreshold ==
    /\ op = "blockTrades"
    /\ Len(bars) = 20
    /\ Cardinality({i \in 1..20 : bars[i].volume = MaxBlockVolume}) = 4
    /\ \A i \in 1..20 : bars[i].volume \in {1, MaxBlockVolume}
    /\ blockData.blockFlow = 0

(***************************************************************************)
(* nq-prediction: predictOpen.  The score adds the four signals; the       *)
(* direction and the confidence are read off the score.  The labels are    *)
(* written without their leading pictographs, and the strategy text, which *)
(* only formats poc and the gamma levels, is left out.                     *)
(***************************************************************************)

\* if (recentDelta > 0) score += 2 else score -= 2
deltaScore(recentDelta) == IF recentDelta > 0 THEN 2 ELSE -2

predictOpen(vwapPosition, recentDelta, blockFlow, internalsScore) ==
    LET s1 == IF vwapPosition = "ABOVE" THEN 2 ELSE -2
        s2 == s1 + deltaScore(recentDelta)
        s3 == IF blockFlow > 0 THEN s2 + 2
              ELSE IF blockFlow < 0 THEN s2 - 2
              ELSE s2
        score == s3 + internalsScore
        signals ==
            <<IF vwapPosition = "ABOVE" THEN "Above VWAP" ELSE "Below VWAP">>
            \o <<IF recentDelta > 0 THEN "Positive delta" ELSE "Negative delta">>
            \o (IF blockFlow > 0 THEN <<"Institutional buying">>
                ELSE IF blockFlow < 0 THEN <<"Institutional selling">>
                ELSE <<>>)
    IN  IF score >= 5
            THEN [direction |-> "STRONG BULLISH", confidence |-> "High",
                  score |-> score, signals |-> signals]
        ELSE IF score >= 2
            THEN [direction |-> "BULLISH", confidence |-> "Medium",
                  score |-> score, signals |-> signals]
        ELSE IF score <= -5
            THEN [direction |-> "STRONG BEARISH", confidence |-> "High",
                  score |-> score, signals |-> signals]
        ELSE IF score <= -2
            THEN [direction |-> "BEARISH", confidence |-> "Medium",
                  score |-> score, signals |-> signals]
        ELSE [direction |-> "NEUTRAL", confidence |-> "Low",
              score |-> score, signals |-> signals]

MaxOpenDelta == 1
MaxOpenFlow == 1
MaxInternals == 3

\* the caller passes 'ABOVE' or 'BELOW', the recent delta, the block flow and
\* the internals score of the breadth analysis
OpenSignals ==
    [vwapPosition : {"ABOVE", "BELOW"},
     recentDelta : -MaxOpenDelta..MaxOpenDelta,
     blockFlow : -MaxOpenFlow..MaxOpenFlow,
     internalsScore : -MaxInternals..MaxInternals]

InitPredict ==
    /\ op = "init"
    /\ NoFeed
    /\ NoAlerts
    /\ NoRefresh
    /\ NoSector
    /\ breadth = [vixRegime |-> "UNKNOWN", revision |-> ""]
    /\ predictArgs \in OpenSignals
    /\ prediction = [direction |-> "", confidence |-> "", score |-> 0, signals |-> <<>>]
    /\ IdleConverter
    /\ NoDate
    /\ NoBars

PredictOpen ==
    /\ op = "init"
    /\ prediction' = predictOpen(predictArgs.vwapPosition, predictArgs.recentDelta,
                                 predictArgs.blockFlow, predictArgs.internalsScore)
    /\ op' = "predictOpen"
    /\ UNCHANGED <<breadth, predictArgs>>
    /\ UNCHANGED <<convVars, dateVars, barVars, feedVars, alertVars, refreshVars, sectorVars>>

NextPredict == PredictOpen

SpecPredict == InitPredict /\ [][NextPredict]_vars

\* every signal turned round: ABOVE for BELOW, the numbers negated
mirrored(a) ==
    [vwapPosition |-> IF a.vwapPosition = "ABOVE" THEN "BELOW" ELSE "ABOVE",
     recentDelta |-> 0 - a.recentDelta,
     blockFlow |-> 0 - a.blockFlow,
     internalsScore |-> 0 - a.internalsScore]

mirroredDirection(d) ==
    CASE d = "STRONG BULLISH" -> "STRONG BEARISH"
      [] d = "BULLISH" -> "BEARISH"
      [] d = "NEUTRAL" -> "NEUTRAL"
      [] d = "BEARISH" -> "BULLISH"
      [] d = "STRONG BEARISH" -> "STRONG BULLISH"

\* the prediction made from the mirrored signals negates the score, swaps the
\* direction and keeps the confidence, and the confidence is the tier of the
\* magnitude of the score
mirrorsPrediction ==
    LET m == mirrored(predictArgs)
        q == predictOpen(m.vwapPosition, m.recentDelta, m.blockFlow, m.internalsScore)
        mag == IF prediction.score < 0 THEN 0 - prediction.score ELSE prediction.score
    IN  /\ q.score = 0 - prediction.score
        /\ q.direction = mirroredDirection(prediction.direction)
        /\ q.confidence = prediction.confidence
        /\ prediction.confidence =
               IF mag >= 5 THEN "High" ELSE IF mag >= 2 THEN "Medium" ELSE "Low"

\* C30: mirroring every input of predictOpen (ABOVE for BELOW, recentDelta,
\* blockFlow and internalsScore negated) negates the score and swaps BULLISH
\* with BEARISH; the confidence depends on the magnitude of the score alone:
\* High from 5, Medium from 2, Low below
C30_PredictOpenSymmetry ==
    op = "predictOpen" => mirrorsPrediction

\* the symmetry holds for every input whose recent delta is not zero
SymmetricOffZeroDelta ==
    (op = "predictOpen" /\ predictArgs.recentDelta # 0) => mirrorsPrediction

\* the confidence is the tier of the magnitude of the score for every input
ConfidenceByMagnitude ==
    op = "predictOpen" =>
        LET mag == IF prediction.score < 0 THEN 0 - prediction.score ELSE prediction.score
        IN  prediction.confidence =
                IF mag >= 5 THEN "High" ELSE IF mag >= 2 THEN "Medium" ELSE "Low"

\* price above VWAP and nothing else: the zero delta is scored as negative
ZeroDeltaAboveVwap ==
    /\ op = "predictOpen"
    /\ predictArgs = [vwapPosition |-> "ABOVE", recentDelta |-> 0, blockFlow |-> 0, internalsScore |-> 0]
    /\ prediction.score = 0
    /\ prediction.direction = "NEUTRAL"
    /\ prediction.confidence = "Low"

\* its mirror image scores -4, not 0
ZeroDeltaBelowVwap ==
    /\ op = "predictOpen"
    /\ predictArgs = [vwapPosition |-> "BELOW", recentDelta |-> 0, blockFlow |-> 0, internalsScore |-> 0]
    /\ prediction.score = -4
    /\ prediction.direction = "BEARISH"
    /\ prediction.confidence = "Medium"

====
